---- MODULE Spec2Model ----
(***************************************************************************)
(* Model of the relay-clients hook runtime: the themed-styler bridge       *)
(* (usage registry, theme registry and CSS generation), the style manager, *)
(* the JSX automatic-runtime factory and the hook loader cache.            *)
(*                                                                         *)
(* JavaScript values are records [t, s, n]: t is the typeof-like tag, s    *)
(* the characters of a string (a sequence of one-character strings), n the *)
(* number, or the identity of an object.                                   *)
(***************************************************************************)
EXTENDS Integers, Sequences, FiniteSets, TLC

VARIABLES
    usage,          \* themedStylerBridge.ts `usage`: [tags, classes, tagClasses], three sets of strings
    themes,         \* themedStylerBridge.ts `themes`: function from registered names to definitions
    currentTheme,   \* themedStylerBridge.ts `currentTheme`: null or a string
    themeOrder,     \* the property order of `themes`: the names in the order they were first registered
    lastSet,        \* the argument of the latest setCurrentTheme call, null before the first
    importOutcome,  \* how the latest settled import('./styleManager') ended
    engineState,    \* the state the latest getCssForWeb call passed to the style engine
    env,            \* the platform the latest getCssForWeb call ran on
    pendingImports, \* setCurrentTheme: import('./styleManager') promises whose callback has not run
    renderRequested,\* styleManager: a render has been requested and not yet performed
    scheduledPasses,\* styleManager: the Rendering passes scheduled and not yet run
    autoSyncActive, \* styleManager: auto-sync is started
    styleTargets,   \* the contents of the marked style elements of the document
    requestsInTick, \* the requestRender calls the pending or latest pass stands for (counted up to a cap)
    smLast,         \* the latest operation of the style manager
    requestedSince, \* a render was requested since the latest setCurrentTheme call
    returned,       \* the value returned by the latest bridge call
    last,           \* the latest bridge call and its arguments
    prevOp,         \* the name of the bridge call before `last`
    repeated,       \* the latest call has the operation and arguments of the call before it
    jsxCall,        \* the arguments of the latest call of the JSX factory
    jsxElement,     \* the element that call produced
    jsxFactory,     \* the latest createJsxFactory(React) call and what it returned
    jsxMapped,      \* the latest items.map(...) through the JSX factory and its elements
    hookCall,       \* the latest call of the wrapped element creator of a hook context
    loaderReady,    \* HookRenderer: loaderRef.current holds a HookLoader
    cache,          \* HookLoader: for each module key the load whose promise is cached, 0 for none
    loads,          \* HookLoader: the loads started so far, with their key, stage and failed phase
    runs,           \* for each load, how many times each pipeline stage was invoked
    callers,        \* the callers of helpers.loadModule / loadAndExecuteHook
    currentModulePath, \* window.__currentModulePath: the path the loader tracks, <<>> when unset
    loading,        \* HookRenderer: the `loading` state
    error,          \* HookRenderer: the `error` state, null or a message
    element,        \* HookRenderer: the `element` state, null or the element of a hook
    latestRun,      \* HookRenderer: the caller of the tryRender run started last
    adapter,        \* FileRendererAdapter: the path prop and the content, contentType, loading states
    fetches,        \* FileRendererAdapter: the fetches its effects started, with their `cancelled` flag
    peerCall,       \* the latest helpers.buildPeerUrl call of a hook context and its result
    renderers,      \* the HookRenderer components of the page: mounted or not, and their host prop
    defaults,       \* ensureDefaultsLoaded: the _defaults_loaded flag, its callers and what they did
    boot            \* main.tsx bootstrap: its position, initError and the roots it rendered

\* the registries of the bridge
registryVars == <<usage, themes, currentTheme, themeOrder>>

\* the record of the latest CSS generation
cssVars == <<engineState, env>>

\* the record of the latest bridge call
callVars == <<returned, last, prevOp, repeated>>

\* the style manager
styleVars ==
    <<renderRequested, scheduledPasses, autoSyncActive, styleTargets, requestsInTick, smLast,
      requestedSince>>

bridgeVars ==
    <<registryVars, lastSet, pendingImports, importOutcome, cssVars, callVars, styleVars>>

jsxVars == <<jsxCall, jsxElement, jsxFactory, jsxMapped, hookCall>>

loaderVars == <<loaderReady, cache, loads, runs, callers, currentModulePath>>

\* the state of the HookRenderer component
rendererVars == <<loading, error, element, latestRun>>

\* the state of a FileRendererAdapter component
adapterVars == <<adapter, fetches>>

\* the application around the renderers
appVars == <<peerCall, renderers, defaults, boot>>

vars == <<bridgeVars, jsxVars, loaderVars, rendererVars, adapterVars, appVars>>

\* the state outside the themed-styler bridge
notBridge == <<jsxVars, loaderVars, rendererVars, adapterVars, appVars>>

\* the state outside the JSX factory
notJsx == <<bridgeVars, loaderVars, rendererVars, adapterVars, appVars>>

\* the state outside the hook loader
notLoader == <<bridgeVars, jsxVars, rendererVars, adapterVars, appVars>>

\* the state outside the FileRendererAdapter
notAdapter == <<bridgeVars, jsxVars, loaderVars, rendererVars, appVars>>

\* the state outside the application shell
notApp == <<bridgeVars, jsxVars, loaderVars, rendererVars, adapterVars>>

----------------------------------------------------------------------------
(* JavaScript values *)

Undef == [t |-> "undefined", s |-> <<>>, n |-> 0]

Null == [t |-> "null", s |-> <<>>, n |-> 0]

Str(chars) == [t |-> "string", s |-> chars, n |-> 0]

Num(k) == [t |-> "number", s |-> <<>>, n |-> k]

Obj(id) == [t |-> "object", s |-> <<>>, n |-> id]

\* ToBoolean: undefined, null, '' and 0 are falsy, everything else is truthy
Truthy(v) ==
    CASE v.t = "undefined" -> FALSE
      [] v.t = "null" -> FALSE
      [] v.t = "string" -> v.s # <<>>
      [] v.t = "number" -> v.n # 0
      [] OTHER -> TRUE

\* a || b
JsOr(a, b) == IF Truthy(a) THEN a ELSE b

----------------------------------------------------------------------------
(* Strings *)

\* the characters matched by \s that the inputs use
Whitespace == {" ", "\t"}

IsWs(ch) == ch \in Whitespace

\* String.prototype.trim
RECURSIVE TrimLeft(_)
TrimLeft(str) ==
    IF str # <<>> /\ IsWs(Head(str)) THEN TrimLeft(Tail(str)) ELSE str

RECURSIVE TrimRight(_)
TrimRight(str) ==
    IF str # <<>> /\ IsWs(str[Len(str)])
    THEN TrimRight(SubSeq(str, 1, Len(str) - 1))
    ELSE str

Trim(str) == TrimRight(TrimLeft(str))

\* String.prototype.split(/\s+/): the pieces between maximal runs of
\* whitespace; a run at either end yields an empty piece there.
RECURSIVE SplitFrom(_, _, _, _)
SplitFrom(str, i, cur, acc) ==
    IF i > Len(str) THEN Append(acc, cur)
    ELSE IF IsWs(str[i])
         THEN IF i < Len(str) /\ IsWs(str[i + 1])
              THEN SplitFrom(str, i + 1, cur, acc)
              ELSE SplitFrom(str, i + 1, <<>>, Append(acc, cur))
         ELSE SplitFrom(str, i + 1, Append(cur, str[i]), acc)

\* A split on the single space character, as split(' ') would do.
RECURSIVE SplitSpaceFrom(_, _, _, _)
SplitSpaceFrom(str, i, cur, acc) ==
    IF i > Len(str) THEN Append(acc, cur)
    ELSE IF str[i] = " "
         THEN SplitSpaceFrom(str, i + 1, <<>>, Append(acc, cur))
         ELSE SplitSpaceFrom(str, i + 1, Append(cur, str[i]), acc)

SplitSpace(str) == SplitSpaceFrom(str, 1, <<>>, <<>>)

SplitWs(str) == SplitFrom(str, 1, <<>>, <<>>)

\* Array.prototype.map((c) => c.trim())
MapTrim(arr) == [i \in 1..Len(arr) |-> Trim(arr[i])]

\* Array.prototype.filter(Boolean) on an array of strings
FilterNonEmpty(arr) == SelectSeq(arr, LAMBDA c : c # <<>>)

----------------------------------------------------------------------------
(* Usage registry: themedStylerBridge.ts *)

\* An add that removes a member already present.
SetToggle(set, x) == IF x \in set THEN set \ {x} ELSE set \cup {x}

\* Set.prototype.add
SetAdd(set, x) == set \cup {x}

\* const cls = props ? ((props.className || props.class || '') as string) : ''
\* NoProps is a call without a props object.
NoProps == [present |-> FALSE, className |-> Undef, class |-> Undef]

Props(cn, cl) == [present |-> TRUE, className |-> cn, class |-> cl]

ClassAttr(props) ==
    IF props.present
    THEN JsOr(JsOr(props.className, props.class), Str(<<>>))
    ELSE Str(<<>>)

\* const classes = typeof cls === 'string' && cls.trim().length
\*   ? cls.split(/\s+/).map((c) => c.trim()).filter(Boolean) : []
ClassList(props) ==
    LET cls == ClassAttr(props)
    IN  IF cls.t = "string" /\ Len(Trim(cls.s)) # 0
        THEN FilterNonEmpty(MapTrim(SplitWs(cls.s)))
        ELSE <<>>

\* A composite key written class first.
TagClassKeyClassFirst(tag, c) == c \o <<"|">> \o tag

\* `${tag}|${c}`
TagClassKey(tag, c) == tag \o <<"|">> \o c

\* for (const c of classes) { usage.classes.add(c); if (tag) usage.tagClasses.add(...) }
RECURSIVE AddClasses(_, _, _)
AddClasses(u, tag, classes) ==
    IF classes = <<>> THEN u
    ELSE LET c == Head(classes)
             withClass == [u EXCEPT !.classes = SetAdd(u.classes, c)]
             withPair == IF tag # <<>>
                         THEN [withClass EXCEPT !.tagClasses =
                                   SetAdd(withClass.tagClasses, TagClassKey(tag, c))]
                         ELSE withClass
         IN  AddClasses(withPair, tag, Tail(classes))

\* A registration that keeps the entries of the latest element only.
UsageAfterRegisterLatestOnly(u, tag, props) ==
    LET none == [tags |-> {}, classes |-> {}, tagClasses |-> {}]
        withTag == IF tag # <<>> THEN [none EXCEPT !.tags = {tag}] ELSE none
    IN  AddClasses(withTag, tag, ClassList(props))

UsageAfterRegister(u, tag, props) ==
    LET withTag == IF tag # <<>> THEN [u EXCEPT !.tags = SetAdd(u.tags, tag)] ELSE u
    IN  AddClasses(withTag, tag, ClassList(props))

EmptyUsage == [tags |-> {}, classes |-> {}, tagClasses |-> {}]

\* the record kept of the latest call
Call(op, tag, props, name, defs) ==
    [op |-> op, tag |-> tag, props |-> props, name |-> name, defs |-> defs]

NoCall == Call("none", <<>>, NoProps, <<>>, Undef)

\* the inputs of the calls
Tags == {<<>>, <<"p">>, <<"q">>}

ClassNameValues ==
    { Undef, Num(7), Str(<<>>), Str(<<"a">>),
      Str(<<" ", "a", " ", " ", "b", " ">>), Str(<<"b", "\t", "a">>),
      Str(<<" ", "\t">>) }

ClassValues == { Undef, Str(<<"b">>) }

PropsValues ==
    {NoProps} \cup { Props(cn, cl) : cn \in ClassNameValues, cl \in ClassValues }

RegisterUsage(tag, props) ==
    /\ usage' = UsageAfterRegister(usage, tag, props)
    /\ last' = Call("registerUsage", tag, props, <<>>, Undef)
    /\ prevOp' = last.op
    /\ repeated' = (last = Call("registerUsage", tag, props, <<>>, Undef))
    /\ returned' = Undef
    /\ UNCHANGED <<themes, currentTheme, themeOrder, lastSet, pendingImports, importOutcome>>
    /\ UNCHANGED <<cssVars, styleVars>>
    /\ UNCHANGED notBridge

\* A clear that forgets the composite set.
UsageAfterClearTwo(u) == [tags |-> {}, classes |-> {}, tagClasses |-> u.tagClasses]

\* usage.tags.clear(); usage.classes.clear(); usage.tagClasses.clear()
UsageAfterClear(u) == [tags |-> {}, classes |-> {}, tagClasses |-> {}]

ClearUsage ==
    /\ usage' = UsageAfterClear(usage)
    /\ last' = Call("clearUsage", <<>>, NoProps, <<>>, Undef)
    /\ prevOp' = last.op
    /\ repeated' = (last = Call("clearUsage", <<>>, NoProps, <<>>, Undef))
    /\ returned' = Undef
    /\ UNCHANGED <<themes, currentTheme, themeOrder, lastSet, pendingImports, importOutcome>>
    /\ UNCHANGED <<cssVars, styleVars>>
    /\ UNCHANGED notBridge

\* Array.from(set.values()) for each of the three sets; the order of the
\* arrays is not modelled.
UsageSnapshotOf(u) ==
    [tags |-> u.tags, classes |-> u.classes, tagClasses |-> u.tagClasses]

GetUsageSnapshot ==
    /\ returned' = UsageSnapshotOf(usage)
    /\ last' = Call("getUsageSnapshot", <<>>, NoProps, <<>>, Undef)
    /\ prevOp' = last.op
    /\ repeated' = (last = Call("getUsageSnapshot", <<>>, NoProps, <<>>, Undef))
    /\ UNCHANGED <<registryVars, lastSet, pendingImports, importOutcome, cssVars, styleVars>>
    /\ UNCHANGED notBridge

----------------------------------------------------------------------------
(* Theme registry: themedStylerBridge.ts *)

ThemeNames == {<<"d", "a", "r", "k">>, <<"l", "i", "g", "h", "t">>}

\* setCurrentTheme is also called with the empty string
ActiveNames == ThemeNames \cup {<<>>}

\* definitions passed to registerTheme: omitted, or one of two objects
DefsValues == {Undef, Obj(1), Obj(2)}

\* the object literal {} of `defs || {}`
EmptyDefs == Obj(0)

\* A registration that keeps the definition of a name already registered.
ThemesAfterRegisterKeep(th, name, defs) ==
    [n \in DOMAIN th \cup {name} |->
        IF n \in DOMAIN th THEN th[n] ELSE JsOr(defs, EmptyDefs)]

\* themes[name] = defs || {}
ThemesAfterRegister(th, name, defs) ==
    [n \in DOMAIN th \cup {name} |->
        IF n = name THEN JsOr(defs, EmptyDefs) ELSE th[n]]

\* Object.keys(themes): a new name is appended, a registered name keeps its place
OrderAfterRegister(order, th, name) ==
    IF name \in DOMAIN th THEN order ELSE Append(order, name)

\* A registration that always activates.
CurrentAfterRegisterAlways(cur, name) == Str(name)

\* if (!currentTheme) currentTheme = name
CurrentAfterRegister(cur, name) ==
    IF ~Truthy(cur) THEN Str(name) ELSE cur

RegisterTheme(name, defs) ==
    /\ themes' = ThemesAfterRegister(themes, name, defs)
    /\ currentTheme' = CurrentAfterRegister(currentTheme, name)
    /\ last' = Call("registerTheme", <<>>, NoProps, name, defs)
    /\ prevOp' = last.op
    /\ repeated' = (last = Call("registerTheme", <<>>, NoProps, name, defs))
    /\ themeOrder' = OrderAfterRegister(themeOrder, themes, name)
    /\ returned' = Undef
    /\ UNCHANGED <<usage, lastSet, pendingImports, importOutcome, cssVars, styleVars>>
    /\ UNCHANGED notBridge

\* the number of import('./styleManager') callbacks that may be outstanding
MaxPendingImports == 1

\* An import made only when the theme changes.
ImportsStartedIfChanged(cur, name) == IF cur = Str(name) THEN 0 ELSE 1

\* every call starts one import('./styleManager')
ImportsStarted(cur, name) == 1

\* An activation of registered themes only.
CurrentAfterSetIfRegistered(th, cur, name) ==
    IF name \in DOMAIN th THEN Str(name) ELSE cur

\* currentTheme = name
CurrentAfterSet(th, cur, name) == Str(name)

\* currentTheme = name; import('./styleManager').then((m) => m.requestRender())
SetCurrentTheme(name) ==
    /\ pendingImports < MaxPendingImports
    /\ currentTheme' = CurrentAfterSet(themes, currentTheme, name)
    /\ lastSet' = Str(name)
    /\ pendingImports' = pendingImports + ImportsStarted(currentTheme, name)
    /\ requestedSince' = FALSE
    /\ last' = Call("setCurrentTheme", <<>>, NoProps, name, Undef)
    /\ prevOp' = last.op
    /\ repeated' = (last = Call("setCurrentTheme", <<>>, NoProps, name, Undef))
    /\ returned' = Undef
    /\ UNCHANGED <<usage, themes, themeOrder, importOutcome, cssVars>>
    /\ UNCHANGED <<renderRequested, scheduledPasses, autoSyncActive, styleTargets,
                   requestsInTick, smLast>>
    /\ UNCHANGED notBridge

----------------------------------------------------------------------------
(* CSS generation: themedStylerBridge.ts getCssForWeb, wasmEntry.ts *)

\* getThemes(): { themes: { ...themes }, currentTheme }; keys is Object.keys(themes)
GetThemes(th, order, cur) == [themes |-> th, keys |-> order, currentTheme |-> cur]

\* Object.keys(themeMap)[0]
FirstKey(keys) == IF keys = <<>> THEN Undef ELSE Str(keys[1])

DefaultName == Str(<<"d", "e", "f", "a", "u", "l", "t">>)

\* A default without the literal fallback.
DefaultThemeWithoutFallback(ts) == JsOr(ts.currentTheme, FirstKey(ts.keys))

\* const defaultTheme = currentTheme || Object.keys(themeMap)[0] || 'default'
DefaultTheme(ts) == JsOr(JsOr(ts.currentTheme, FirstKey(ts.keys)), DefaultName)

\* A state whose current theme is the first registered theme when there is one.
RenderCssStateFirstKey(snap, ts) ==
    [ themes |-> ts.themes,
      current_theme |-> JsOr(FirstKey(ts.keys), DefaultTheme(ts)),
      default_theme |-> DefaultTheme(ts),
      used_tags |-> snap.tags,
      used_classes |-> snap.classes,
      used_tag_classes |-> snap.tagClasses,
      extras |-> {} ]

\* the state __themedStylerRenderCss serializes for render_css_for_web
RenderCssState(snap, ts) ==
    [ themes |-> ts.themes,
      current_theme |-> JsOr(ts.currentTheme, DefaultTheme(ts)),
      default_theme |-> DefaultTheme(ts),
      used_tags |-> snap.tags,
      used_classes |-> snap.classes,
      used_tag_classes |-> snap.tagClasses,
      extras |-> {} ]

\* the state getCssForWeb writes for the hook-transpiler CLI under Node
CliState(snap, ts) ==
    [ themes |-> ts.themes,
      current_theme |-> ts.currentTheme,
      default_theme |-> ts.currentTheme,
      used_tags |-> snap.tags,
      used_classes |-> snap.classes,
      used_tag_classes |-> snap.tagClasses,
      extras |-> {"variables", "breakpoints"} ]

\* no state was passed to the style engine
NoState == [extras |-> {"none"}]

\* the CSS text the style engine produces for a state
CssOf(st) == [kind |-> "css", of |-> st]

\* the empty string
EmptyCss == [kind |-> "empty"]

\* A placeholder that lists the classes only.
PlaceholderClassesOnly(snap) ==
    [kind |-> "placeholder", classes |-> snap.classes, tags |-> {}, tagClasses |-> {}]

\* `/* themed-styler fallback (no renderer):\nclasses=...\ntags=...\ntagClasses=...\n*/`
Placeholder(snap) ==
    [kind |-> "placeholder", classes |-> snap.classes, tags |-> snap.tags,
     tagClasses |-> snap.tagClasses]

\* the platform of a call: hook is globalThis.__themedStylerRenderCss (absent,
\* the function wasmEntry installs, or a function that throws), engine is
\* render_css_for_web behind the installed hook, node is process.versions.node
\* with the outcome of the hook-transpiler CLI
Env(hook, engine, node) == [hook |-> hook, engine |-> engine, node |-> node]

NoEnv == Env("none", "none", "none")

BrowserEnvs ==
    { Env("wasm", "ok", "none"), Env("wasm", "throws", "none"),
      Env("absent", "none", "none"), Env("throws", "none", "none") }

NodeEnvs == { Env("absent", "none", "cliOk"), Env("absent", "none", "cliFails") }

Envs == BrowserEnvs \cup NodeEnvs

\* getCssForWeb(): the state passed to the style engine and the text returned
CssForWeb(e, snap, ts) ==
    IF e.hook = "wasm"
    THEN [ passed |-> RenderCssState(snap, ts),
           css |-> IF e.engine = "ok" THEN CssOf(RenderCssState(snap, ts)) ELSE EmptyCss ]
    ELSE IF e.node = "cliOk"
    THEN [ passed |-> CliState(snap, ts), css |-> CssOf(CliState(snap, ts)) ]
    ELSE IF e.node = "cliFails"
    THEN [ passed |-> CliState(snap, ts), css |-> Placeholder(snap) ]
    ELSE [ passed |-> NoState, css |-> Placeholder(snap) ]

\* a call of getCssForWeb on platform e, by whoever makes it
CssCall(e) ==
    LET r == CssForWeb(e, UsageSnapshotOf(usage), GetThemes(themes, themeOrder, currentTheme))
    IN  /\ engineState' = r.passed
        /\ env' = e
        /\ returned' = r.css
        /\ last' = Call("getCssForWeb", <<>>, NoProps, <<>>, Undef)
        /\ prevOp' = last.op
        /\ repeated' = (last = Call("getCssForWeb", <<>>, NoProps, <<>>, Undef))

GetCssForWeb(e) ==
    /\ CssCall(e)
    /\ UNCHANGED <<registryVars, lastSet, pendingImports, importOutcome, styleVars>>
    /\ UNCHANGED notBridge

----------------------------------------------------------------------------
(* Style manager: requestRender, the scheduled Rendering pass, auto-sync and *)
(* renderCssIntoDom, and their callers in HookRenderer.tsx                   *)

\* the requestRender calls counted for one pass
MaxCountedRequests == 2

CountUp(n) == IF n < MaxCountedRequests THEN n + 1 ELSE n

\* A request that schedules a pass of its own.
ScheduledAfterRequestEach(pending, n) == CountUp(n)

\* a request schedules a pass unless one is pending
ScheduledAfterRequest(pending, n) == IF pending THEN n ELSE n + 1

\* Idle -> RenderRequested, by requestRender or by an auto-sync tick
RequestEffects(op) ==
    /\ renderRequested' = TRUE
    /\ scheduledPasses' = ScheduledAfterRequest(renderRequested, scheduledPasses)
    /\ requestsInTick' = IF renderRequested THEN CountUp(requestsInTick) ELSE 1
    /\ smLast' = op
    /\ requestedSince' = TRUE

RequestRenderBy(op) ==
    /\ RequestEffects(op)
    /\ UNCHANGED <<autoSyncActive, styleTargets>>

\* styleManager.requestRender()
RequestRender == RequestRenderBy("requestRender")

\* A commit that adds a style element each time.
CommitAppend(targets, css) == Append(targets, css)

\* the commit of a CSS text: the marked style element is created when the
\* document has none, and its content is replaced
Commit(targets, css) ==
    IF targets = <<>> THEN <<css>> ELSE [targets EXCEPT ![1] = css]

\* the callback of import('./styleManager').then((m) => m.requestRender())
StyleManagerImported ==
    /\ pendingImports > 0
    /\ pendingImports' = pendingImports - 1
    /\ importOutcome' = "resolved"
    /\ RequestRender
    /\ UNCHANGED <<registryVars, lastSet, cssVars, callVars>>
    /\ UNCHANGED notBridge

\* import('./styleManager') is rejected: .catch(() => { /* ignore */ })
StyleManagerImportFails ==
    /\ pendingImports > 0
    /\ pendingImports' = pendingImports - 1
    /\ importOutcome' = "rejected"
    /\ UNCHANGED <<registryVars, lastSet, cssVars, callVars, styleVars>>
    /\ UNCHANGED notBridge

\* styleManager.requestRender() called by a component (the debug menu)
RequestRenderCall ==
    /\ RequestRender
    /\ UNCHANGED <<registryVars, lastSet, pendingImports, importOutcome, cssVars, callVars>>
    /\ UNCHANGED notBridge

\* A wrapper that registers the usage and requests no render.
RegisterUsageFromElementOnly(tag, props) == RegisterUsage(tag, props)

\* registerUsageFromElement(tag, props): unifiedBridge.registerUsage, then
\* styleManager.requestRender()
RegisterUsageFromElement(tag, props) ==
    /\ usage' = UsageAfterRegister(usage, tag, props)
    /\ last' = Call("registerUsage", tag, props, <<>>, Undef)
    /\ prevOp' = last.op
    /\ repeated' = (last = Call("registerUsage", tag, props, <<>>, Undef))
    /\ returned' = Undef
    /\ RequestRender
    /\ UNCHANGED <<themes, currentTheme, themeOrder, lastSet, pendingImports, importOutcome>>
    /\ UNCHANGED cssVars
    /\ UNCHANGED notBridge

\* the scheduled tick: RenderRequested -> Rendering -> Idle; the pass generates
\* the CSS and commits it
RenderPass(e) ==
    /\ scheduledPasses > 0
    /\ scheduledPasses' = scheduledPasses - 1
    /\ renderRequested' = FALSE
    /\ CssCall(e)
    /\ styleTargets' = Commit(styleTargets, returned')
    /\ smLast' = "renderPass"
    /\ UNCHANGED <<autoSyncActive, requestsInTick, requestedSince>>
    /\ UNCHANGED <<registryVars, lastSet, pendingImports, importOutcome>>
    /\ UNCHANGED notBridge

\* styleManager.renderCssIntoDom(): generates the CSS and commits it at once
RenderCssIntoDomBy(e) ==
    /\ CssCall(e)
    /\ styleTargets' = Commit(styleTargets, returned')
    /\ smLast' = "renderCssIntoDom"
    /\ UNCHANGED <<renderRequested, scheduledPasses, autoSyncActive, requestsInTick,
                   requestedSince>>

RenderCssIntoDom(e) ==
    /\ RenderCssIntoDomBy(e)
    /\ UNCHANGED <<registryVars, lastSet, pendingImports, importOutcome>>
    /\ UNCHANGED notBridge

\* helpers.registerThemeStyles(name, defs): unifiedBridge.registerTheme, then
\* styleManager.renderCssIntoDom()
RegisterThemeStyles(name, defs, e) ==
    LET th == ThemesAfterRegister(themes, name, defs)
        cur == CurrentAfterRegister(currentTheme, name)
        order == OrderAfterRegister(themeOrder, themes, name)
        r == CssForWeb(e, UsageSnapshotOf(usage), GetThemes(th, order, cur))
    IN  /\ themes' = th
        /\ currentTheme' = cur
        /\ themeOrder' = order
        /\ engineState' = r.passed
        /\ env' = e
        /\ returned' = r.css
        /\ last' = Call("getCssForWeb", <<>>, NoProps, <<>>, Undef)
        /\ prevOp' = "registerTheme"
        /\ repeated' = FALSE
        /\ styleTargets' = Commit(styleTargets, r.css)
        /\ smLast' = "renderCssIntoDom"
        /\ UNCHANGED <<renderRequested, scheduledPasses, autoSyncActive, requestsInTick,
                       requestedSince>>
        /\ UNCHANGED <<usage, lastSet, pendingImports, importOutcome>>
        /\ UNCHANGED notBridge

\* An auto-sync timer that outlives stopAutoSync.
AutoSyncTickDueAlways(active) == TRUE

\* the auto-sync timer runs while auto-sync is started
AutoSyncTickDue(active) == active

\* an auto-sync tick: Idle -> RenderRequested
AutoSyncTick ==
    /\ AutoSyncTickDue(autoSyncActive)
    /\ RequestRenderBy("autoSyncTick")
    /\ UNCHANGED <<registryVars, lastSet, pendingImports, importOutcome, cssVars, callVars>>
    /\ UNCHANGED notBridge

\* styleManager.startAutoSync()
StartAutoSyncBy ==
    /\ autoSyncActive' = TRUE
    /\ smLast' = "startAutoSync"
    /\ UNCHANGED <<renderRequested, scheduledPasses, styleTargets, requestsInTick, requestedSince>>

StartAutoSync ==
    /\ StartAutoSyncBy
    /\ UNCHANGED <<registryVars, lastSet, pendingImports, importOutcome, cssVars, callVars>>
    /\ UNCHANGED notBridge

\* styleManager.stopAutoSync()
StopAutoSyncBy ==
    /\ autoSyncActive' = FALSE
    /\ smLast' = "stopAutoSync"
    /\ UNCHANGED <<renderRequested, scheduledPasses, styleTargets, requestsInTick, requestedSince>>

StopAutoSync ==
    /\ StopAutoSyncBy
    /\ UNCHANGED <<registryVars, lastSet, pendingImports, importOutcome, cssVars, callVars>>
    /\ UNCHANGED notBridge

----------------------------------------------------------------------------
(* JSX automatic-runtime factory: runtimeLoader.test.ts *)

\* an array value
Arr(items) == [t |-> "array", s |-> <<>>, n |-> 0, items |-> items]

\* the decimal digits of a natural number
Digit(k) == <<"0", "1", "2", "3", "4", "5", "6", "7", "8", "9">>[k + 1]

RECURSIVE Digits(_)
Digits(k) == IF k < 10 THEN <<Digit(k)>> ELSE Digits(k \div 10) \o <<Digit(k % 10)>>

\* A conversion that knows strings only.
JsStringOfStringsOnly(v) ==
    IF v.t = "string" THEN v.s ELSE <<"[", "o", "b", "j", "e", "c", "t", "]">>

\* String(v)
JsString(v) ==
    CASE v.t = "string" -> v.s
      [] v.t = "number" -> Digits(v.n)
      [] v.t = "undefined" -> <<"u", "n", "d", "e", "f", "i", "n", "e", "d">>
      [] v.t = "null" -> <<"n", "u", "l", "l">>
      [] OTHER -> <<"[", "o", "b", "j", "e", "c", "t", "]">>

\* a props object is a function from the names of its fields to their values;
\* config may also be null
NullConfig == [isNull |-> TRUE, fields |-> << >>]

Config(fields) == [isNull |-> FALSE, fields |-> fields]

\* props?.name
Field(fields, name) == IF name \in DOMAIN fields THEN fields[name] ELSE Undef

\* { ...fields, [name]: value }
WithField(fields, name, value) ==
    [f \in DOMAIN fields \cup {name} |-> IF f = name THEN value ELSE fields[f]]

\* const { key: _k, ...propsWithoutKey } = config
WithoutField(fields, name) == [f \in DOMAIN fields \ {name} |-> fields[f]]

\* mockReact.createElement(type, props, ...children); children is the array of
\* the arguments after props
CreateElement(type, props, children) ==
    [ type |-> type,
      props |-> WithField(props, "children",
                    IF Len(children) > 0 THEN Arr(children) ELSE Field(props, "children")),
      key |-> JsOr(Field(props, "key"), Null),
      ref |-> JsOr(Field(props, "ref"), Null) ]

\* a function value
Func == [t |-> "function", s |-> <<>>, n |-> 0]

\* the React argument of createJsxFactory: undefined, null, or an object with
\* its fields
ReactMissing(v) == [t |-> v.t, fields |-> << >>]

ReactObject(fields) == [t |-> "object", fields |-> fields]

\* mockReact: { createElement: (type, props, ...children) => ..., Fragment: Symbol('Fragment') }
MockReact == ReactObject([createElement |-> Func, Fragment |-> Obj(9)])

\* A construction that looks at React only.
CreateJsxFactoryOfAnyObject(React) == IF React.t \in {"undefined", "null"} THEN Undef ELSE Func

\* createJsxFactory(React): if (!React || !React.createElement) return undefined,
\* else the factory function
CreateJsxFactory(React) ==
    IF React.t \in {"undefined", "null"} \/ ~Truthy(Field(React.fields, "createElement"))
    THEN Undef
    ELSE Func

\* A factory that stringifies the third argument also when it is undefined.
JsxFactoryAlwaysString(type, config, maybeKey) ==
    LET paramKey == Str(JsString(maybeKey))
    IN  IF ~config.isNull /\ "key" \in DOMAIN config.fields
        THEN LET key == Str(JsString(config.fields["key"]))
                 propsWithoutKey == WithoutField(config.fields, "key")
             IN  CreateElement(type, WithField(propsWithoutKey, "key", key), <<Undef>>)
        ELSE CreateElement(type, WithField(config.fields, "key", paramKey), <<Undef>>)

\* the function returned by createJsxFactory(React)
JsxFactory(type, config, maybeKey) ==
    LET paramKey == IF maybeKey # Undef THEN Str(JsString(maybeKey)) ELSE Null
    IN  IF ~config.isNull /\ "key" \in DOMAIN config.fields
        THEN LET key == Str(JsString(config.fields["key"]))
                 propsWithoutKey == WithoutField(config.fields, "key")
             IN  CreateElement(type, WithField(propsWithoutKey, "key", key), <<Undef>>)
        ELSE CreateElement(type, WithField(config.fields, "key", paramKey), <<Undef>>)

\* the inputs of the factory
ElementTypes == {"div", "span"}

Hello == Str(<<"h", "e", "l", "l", "o">>)

ConfigKey == Str(<<"c", "k">>)

ParamKey == Str(<<"p", "k">>)

ConfigKeyValues == {ConfigKey, Num(5), Undef}

MaybeKeyValues == {Undef, ParamKey, Num(123), Num(0), Str(<<>>), Null}

OtherFieldValues ==
    [children |-> Hello, className |-> Str(<<"t", "e", "s", "t">>), id |-> Str(<<"i">>)]

ConfigValues ==
    {NullConfig} \cup
    { Config([f \in dom |-> IF f = "key" THEN k ELSE OtherFieldValues[f]]) :
        dom \in SUBSET {"children", "className", "id", "key"}, k \in ConfigKeyValues }

NoJsxCall == [made |-> FALSE, type |-> "", config |-> NullConfig, maybeKey |-> Undef]

NoElement == [type |-> "", props |-> << >>, key |-> Null, ref |-> Null]

\* the React values createJsxFactory is called with
ReactValues ==
    { ReactMissing(Undef), ReactMissing(Null), ReactObject(<< >>),
      ReactObject([Fragment |-> Obj(9)]), ReactObject([createElement |-> Undef]),
      ReactObject([createElement |-> Null]), MockReact }

NoFactory == [made |-> FALSE, React |-> ReactMissing(Undef), factory |-> Undef]

\* const jsxFactory = createJsxFactory(React)
CreateJsxFactoryCall(React) ==
    /\ jsxFactory' = [made |-> TRUE, React |-> React, factory |-> CreateJsxFactory(React)]
    /\ UNCHANGED <<jsxCall, jsxElement, jsxMapped, hookCall>>
    /\ UNCHANGED notJsx

\* jsxFactory(type, config, maybeKey), for a factory that is a function
JsxCall(type, config, maybeKey) ==
    /\ jsxFactory.factory = Func
    /\ jsxCall' = [made |-> TRUE, type |-> type, config |-> config, maybeKey |-> maybeKey]
    /\ jsxElement' = JsxFactory(type, config, maybeKey)
    /\ UNCHANGED <<jsxFactory, jsxMapped, hookCall>>
    /\ UNCHANGED notJsx

\* the longest list mapped through the factory
MaxItems == 2

\* the items of the lists: numbers, strings, undefined and objects
ItemValues ==
    { Num(1), Num(2), Num(3), Str(<<"1">>), Str(<<>>), Undef, Obj(1) }

ItemLists == UNION { [1..n -> ItemValues] : n \in 0..MaxItems }

NoMap == [made |-> FALSE, items |-> <<>>, elements |-> <<>>]

\* items.map((item) => jsxFactory('div', { children: item }, item))
MapThroughFactory(items) ==
    [i \in 1..Len(items) |-> JsxFactory("div", Config([children |-> items[i]]), items[i])]

JsxMap(items) ==
    /\ jsxFactory.factory = Func
    /\ jsxMapped' = [made |-> TRUE, items |-> items, elements |-> MapThroughFactory(items)]
    /\ UNCHANGED <<jsxCall, jsxElement, jsxFactory, hookCall>>
    /\ UNCHANGED notJsx

----------------------------------------------------------------------------
(* Peer URLs of a hook context: normalizeHostUrl and buildPeer *)

\* String.prototype.startsWith
StartsWith(str, prefix) ==
    Len(str) >= Len(prefix) /\ SubSeq(str, 1, Len(prefix)) = prefix

\* String.prototype.includes for one character
Includes(str, ch) == \E i \in DOMAIN str : str[i] = ch

Http == <<"h", "t", "t", "p", ":", "/", "/">>

Https == <<"h", "t", "t", "p", "s", ":", "/", "/">>

\* normalizeHostUrl(host)
NormalizeHostUrl(host) ==
    IF host = <<>> THEN <<>>
    ELSE IF StartsWith(host, Http) \/ StartsWith(host, Https) THEN host
    ELSE IF Includes(host, ":") THEN Http \o host
    ELSE Https \o host

\* A join that always inserts a slash.
BuildPeerAlwaysSlash(normalizedHost, p) == normalizedHost \o <<"/">> \o p

\* buildPeer: `${normalizedHost}${p.startsWith('/') ? p : '/' + p}`
BuildPeer(normalizedHost, p) ==
    normalizedHost \o (IF StartsWith(p, <<"/">>) THEN p ELSE <<"/">> \o p)

\* the host props of the renderers and the paths hooks ask for
PeerHosts ==
    {<<>>} \cup
    { scheme \o name \o port \o trail :
        scheme \in {<<>>, Http, Https}, name \in {<<"h">>, <<"a", ".", "b">>},
        port \in {<<>>, <<":", "8">>}, trail \in {<<>>, <<"/">>} }

PeerPaths == {<<>>, <<"a">>, <<"/", "a">>, <<"/", "/", "a">>, <<"a", "/">>, <<"/">>}

NoPeerCall == [made |-> FALSE, host |-> <<>>, path |-> <<>>, base |-> <<>>, url |-> <<>>]

\* helpers.buildPeerUrl(path) of a renderer whose host prop is `host`
BuildPeerUrl(host, path) ==
    /\ peerCall' = [made |-> TRUE, host |-> host, path |-> path,
                    base |-> NormalizeHostUrl(host),
                    url |-> BuildPeer(NormalizeHostUrl(host), path)]
    /\ UNCHANGED <<renderers, defaults, boot>>
    /\ UNCHANGED notApp

----------------------------------------------------------------------------
(* Several HookRenderer components on one page: the repo browser tab and the *)
(* test tab                                                                  *)

RendererIds == {"browser", "test"}

\* the host props: none, a peer, the static template
RendererHosts == {<<>>, <<"h">>, <<"t">>}

NoRenderer == [mounted |-> FALSE, host |-> <<>>]

\* the effect of a renderer for the host it is given, after the cleanup of the
\* effect for the host it had: the cleanup calls styleManager.stopAutoSync();
\* the effect returns at once for an empty host, else it calls
\* styleManager.startAutoSync() and styleManager.requestRender()
LoaderEffect(hadEffect, host) ==
    IF host # <<>>
    THEN /\ autoSyncActive' = TRUE
         /\ RequestEffects("requestRender")
         /\ UNCHANGED styleTargets
    ELSE IF hadEffect THEN StopAutoSyncBy
    ELSE UNCHANGED styleVars

\* a HookRenderer is mounted with a host
MountRenderer(r, host) ==
    /\ ~renderers[r].mounted
    /\ renderers' = [renderers EXCEPT ![r] = [mounted |-> TRUE, host |-> host]]
    /\ LoaderEffect(FALSE, host)
    /\ UNCHANGED <<registryVars, lastSet, pendingImports, importOutcome, cssVars, callVars>>
    /\ UNCHANGED <<peerCall, defaults, boot>>
    /\ UNCHANGED <<jsxVars, loaderVars, rendererVars, adapterVars>>

\* the host prop of a mounted renderer changes
ChangeHost(r, host) ==
    /\ renderers[r].mounted
    /\ renderers[r].host # host
    /\ renderers' = [renderers EXCEPT ![r].host = host]
    /\ LoaderEffect(renderers[r].host # <<>>, host)
    /\ UNCHANGED <<registryVars, lastSet, pendingImports, importOutcome, cssVars, callVars>>
    /\ UNCHANGED <<peerCall, defaults, boot>>
    /\ UNCHANGED <<jsxVars, loaderVars, rendererVars, adapterVars>>

\* a mounted renderer is unmounted: the cleanup of its effect, if it had one
UnmountRendererOf(r) ==
    /\ renderers[r].mounted
    /\ renderers' = [renderers EXCEPT ![r] = NoRenderer]
    /\ IF renderers[r].host # <<>> THEN StopAutoSyncBy ELSE UNCHANGED styleVars
    /\ UNCHANGED <<registryVars, lastSet, pendingImports, importOutcome, cssVars, callVars>>
    /\ UNCHANGED <<peerCall, defaults, boot>>
    /\ UNCHANGED <<jsxVars, loaderVars, rendererVars, adapterVars>>

----------------------------------------------------------------------------
(* The default themes: themedStylerBridge.ts ensureDefaultsLoaded *)

\* the callers of ensureDefaultsLoaded: bootstrap, and another importer of the bridge
DefaultCallers == {"main", "late"}

NotCalled == [pc |-> "idle", outcome |-> "none"]

ReturnedWith(outcome) == [pc |-> "returned", outcome |-> outcome]

\* let _defaults_loaded = false, nothing fetched or registered
NoDefaults ==
    [loaded |-> FALSE, fetches |-> 0, registered |-> 0,
     callers |-> [c \in DefaultCallers |-> NotCalled]]

\* A check that lets a call through until the themes are registered.
AlreadyLoadedWhenRegistered(d) == d.registered > 0

\* if (_defaults_loaded) return
AlreadyLoaded(d) == d.loaded

\* ensureDefaultsLoaded() up to its first await: a call after the first returns
\* at once; the first sets the flag and starts the fetch of theme.yaml
EnsureDefaultsLoadedBy(c) ==
    /\ defaults.callers[c].pc \in {"idle", "returned"}
    /\ defaults' =
           IF AlreadyLoaded(defaults)
           THEN [defaults EXCEPT !.callers[c] = ReturnedWith("skipped")]
           ELSE [defaults EXCEPT !.loaded = TRUE,
                                 !.fetches = @ + 1,
                                 !.callers[c] = [pc |-> "fetching", outcome |-> "none"]]

EnsureDefaultsLoaded(c) ==
    /\ EnsureDefaultsLoadedBy(c)
    /\ UNCHANGED <<peerCall, renderers, boot>>
    /\ UNCHANGED notApp

\* the outcomes of the fetch of theme.yaml and of its parse
YamlResults == {"ok", "notOk", "rejected", "noThemes"}

\* the fetch settles: !response.ok and a config without themes return, a
\* rejection is caught by the outer try; the flag stays set
ThemeYamlFetched(c, result) ==
    /\ defaults.callers[c].pc = "fetching"
    /\ defaults' = [defaults EXCEPT !.callers[c] =
                       IF result = "ok"
                       THEN [pc |-> "shim", outcome |-> "none"]
                       ELSE ReturnedWith("failed")]
    /\ UNCHANGED <<peerCall, renderers, boot>>
    /\ UNCHANGED notApp

\* the themes of theme.yaml in the order of Object.entries, and its default_theme
YamlThemes == <<<<"d", "a", "r", "k">>, <<"l", "i", "g", "h", "t">>>>

YamlDefaultTheme == <<"d", "a", "r", "k">>

\* for (const [k, v] of Object.entries(parsedState.themes)) registerTheme(k, v)
RECURSIVE RegisterAll(_, _)
RegisterAll(reg, names) ==
    IF names = <<>> THEN reg
    ELSE RegisterAll([themes |-> ThemesAfterRegister(reg.themes, Head(names), Obj(1)),
                      order |-> OrderAfterRegister(reg.order, reg.themes, Head(names)),
                      current |-> CurrentAfterRegister(reg.current, Head(names))],
                     Tail(names))

\* the outcomes of the web-only part: no window (React Native), the import of
\* the shim fails, the shim has no register_theme_json, or the themes are
\* registered with the engine and then with the bridge
ShimResults == {"registered", "noWindow", "importFails", "noRegisterFn"}

\* the web-only part settles; when it succeeds every theme of the state is
\* registered and setCurrentTheme(parsedState.current_theme) is called
ShimSettles(c, result) ==
    /\ defaults.callers[c].pc = "shim"
    /\ IF result = "registered"
       THEN LET reg == RegisterAll([themes |-> themes, order |-> themeOrder,
                                    current |-> currentTheme], YamlThemes)
            IN  /\ pendingImports < MaxPendingImports
                /\ themes' = reg.themes
                /\ themeOrder' = reg.order
                /\ currentTheme' = Str(YamlDefaultTheme)
                /\ lastSet' = Str(YamlDefaultTheme)
                /\ pendingImports' = pendingImports + ImportsStarted(reg.current, YamlDefaultTheme)
                /\ requestedSince' = FALSE
                /\ last' = Call("setCurrentTheme", <<>>, NoProps, YamlDefaultTheme, Undef)
                /\ prevOp' = "registerTheme"
                /\ repeated' = FALSE
                /\ returned' = Undef
                /\ defaults' = [defaults EXCEPT !.registered = @ + 1,
                                                !.callers[c] = ReturnedWith("registered")]
                /\ UNCHANGED <<usage, importOutcome, cssVars>>
                /\ UNCHANGED <<renderRequested, scheduledPasses, autoSyncActive, styleTargets,
                               requestsInTick, smLast>>
       ELSE /\ defaults' = [defaults EXCEPT !.callers[c] = ReturnedWith("failed")]
            /\ UNCHANGED bridgeVars
    /\ UNCHANGED <<peerCall, renderers, boot>>
    /\ UNCHANGED <<jsxVars, loaderVars, rendererVars, adapterVars>>

----------------------------------------------------------------------------
(* The start of the web client: main.tsx bootstrap *)

\* let initError: Error | undefined, nothing rendered; failure is the step of
\* bootstrap that failed, hasError the state the ErrorBoundary started in
NoBoot ==
    [pc |-> "start", initError |-> FALSE, failure |-> "none", roots |-> 0, hasError |-> FALSE]

\* A failure that reaches the outer catch.
AfterFailureOuter(b, step) ==
    [b EXCEPT !.pc = "render", !.failure = step, !.initError = TRUE]

\* a failure inside the inner try blocks is caught there (console.warn, or
\* ignored) and bootstrap goes on to render; the outer catch is not reached
AfterFailure(b, step) == [b EXCEPT !.pc = "render", !.failure = step]

\* await import('@clevertree/relay-client-shared')
BootImportsShared(ok) ==
    /\ boot.pc = "start"
    /\ boot' = IF ok THEN [boot EXCEPT !.pc = "initWasms"] ELSE AfterFailure(boot, "importShared")
    /\ UNCHANGED <<peerCall, renderers, defaults>>
    /\ UNCHANGED notApp

\* await wasmLoader.initAllWasms()
InitAllWasmsSettles(ok) ==
    /\ boot.pc = "initWasms"
    /\ boot' = IF ok THEN [boot EXCEPT !.pc = "importDefaults"]
               ELSE AfterFailure(boot, "initWasms")
    /\ UNCHANGED <<peerCall, renderers, defaults>>
    /\ UNCHANGED notApp

\* what the second import of the shared package gives
SharedResults == {"function", "notFunction", "rejected"}

\* const shared = await import(...); if (typeof shared.ensureDefaultsLoaded ===
\* 'function') await shared.ensureDefaultsLoaded()
BootCallsDefaults(result) ==
    /\ boot.pc = "importDefaults"
    /\ IF result = "function"
       THEN /\ EnsureDefaultsLoadedBy("main")
            /\ boot' = [boot EXCEPT !.pc = "awaitDefaults"]
       ELSE /\ boot' = IF result = "rejected" THEN AfterFailure(boot, "importDefaults")
                       ELSE [boot EXCEPT !.pc = "render"]
            /\ UNCHANGED defaults
    /\ UNCHANGED <<peerCall, renderers>>
    /\ UNCHANGED notApp

\* the promise of ensureDefaultsLoaded resolves: it has returned
BootDefaultsReturned ==
    /\ boot.pc = "awaitDefaults"
    /\ defaults.callers["main"].pc = "returned"
    /\ boot' = [boot EXCEPT !.pc = "render"]
    /\ UNCHANGED <<peerCall, renderers, defaults>>
    /\ UNCHANGED notApp

\* this.state = props.initialError ? { hasError: true, ... } : { hasError: false }
StartsInError(initialError) == initialError

\* createRoot(root).render(<ErrorBoundary initialError={initError}><App/>...)
BootRenders ==
    /\ boot.pc = "render"
    /\ boot' = [boot EXCEPT !.pc = "done", !.roots = @ + 1,
                            !.hasError = StartsInError(boot.initError)]
    /\ UNCHANGED <<peerCall, renderers, defaults>>
    /\ UNCHANGED notApp

----------------------------------------------------------------------------
(* The wrapped element creator of a hook context: createHookReact *)

\* props given as null
NullProps == [present |-> FALSE, className |-> Null, class |-> Null]

\* props || undefined
PropsOrUndefined(props) == IF props = NullProps THEN NoProps ELSE props

\* a component type
Component == Obj(1)

\* the types, props, children and style-pipeline failures of the calls
CreatorTypes == {Str(<<"p">>), Component}

CreatorProps == {NullProps, NoProps, Props(Str(<<"a">>), Undef)}

CreatorChildren == {<<>>, <<Str(<<"x">>)>>}

Faults == {"none", "registerUsage", "requestRender"}

\* baseCreate(type, props, ...children)
BaseCreate(type, props, children) == [type |-> type, props |-> props, children |-> children]

NoHookCall ==
    [made |-> FALSE, type |-> Undef, props |-> NoProps, children |-> <<>>, fault |-> "none",
     trace |-> <<>>, element |-> BaseCreate(Undef, NoProps, <<>>)]

\* A creator that delegates before it reports.
CreatorTraceDelegatesFirst(isTag, fault) ==
    IF ~isTag THEN <<"baseCreate">>
    ELSE IF fault = "registerUsage" THEN <<"baseCreate", "registerUsage">>
    ELSE <<"baseCreate", "registerUsage", "requestRender">>

\* the calls hookCreateElement makes, in their order: for a string type
\* registerUsageFromElement (unifiedBridge.registerUsage, then
\* styleManager.requestRender unless the registration threw), then baseCreate
CreatorTrace(isTag, fault) ==
    IF ~isTag THEN <<"baseCreate">>
    ELSE IF fault = "registerUsage" THEN <<"registerUsage", "baseCreate">>
    ELSE <<"registerUsage", "requestRender", "baseCreate">>

\* hookCreateElement(type, props, ...children), with the call of the style
\* pipeline that throws, if any
HookCreateElement(type, props, children, fault) ==
    LET isTag == type.t = "string"
        reported == PropsOrUndefined(props)
        registers == isTag /\ fault # "registerUsage"
        requests == registers /\ fault # "requestRender"
    IN  /\ hookCall' = [made |-> TRUE, type |-> type, props |-> props, children |-> children,
                        fault |-> fault, trace |-> CreatorTrace(isTag, fault),
                        element |-> BaseCreate(type, props, children)]
        /\ IF registers
           THEN /\ usage' = UsageAfterRegister(usage, type.s, reported)
                /\ last' = Call("registerUsage", type.s, reported, <<>>, Undef)
                /\ prevOp' = last.op
                /\ repeated' = (last = Call("registerUsage", type.s, reported, <<>>, Undef))
                /\ returned' = Undef
           ELSE UNCHANGED <<usage, callVars>>
        /\ IF requests THEN RequestRender ELSE UNCHANGED styleVars
        /\ UNCHANGED <<themes, currentTheme, themeOrder, lastSet, pendingImports, importOutcome>>
        /\ UNCHANGED cssVars
        /\ UNCHANGED <<jsxCall, jsxElement, jsxFactory, jsxMapped>>
        /\ UNCHANGED <<loaderVars, rendererVars, adapterVars, appVars>>

----------------------------------------------------------------------------
(* Hook loader: HookRenderer.tsx (helpers.loadModule, tryRender, the loader  *)
(* effect) and the HookLoader resolution, cache and pipeline                 *)

\* the number of loads the loader may start
MaxLoads == 2

\* three callers: the renderer and the code of running modules
Callers == {"c1", "c2", "c3"}

LoadIds == 1..MaxLoads

\* A path is the sequence of its segments, path.split('/'): an absolute path
\* starts with the empty segment. The empty sequence is an omitted path.
GetClient == <<"", "hooks", "client", "get-client.jsx">>

LibModule == <<"", "hooks", "lib", "x.jsx">>

\* the hook paths the renderer and the modules ask for by their absolute path
HookPaths == {GetClient, LibModule}

\* builtinModules of createHookContext: '@relay/markdown', '@relay/theme'
BuiltinModules == {<<"@relay", "markdown">>, <<"@relay", "theme">>}

ModulePaths == HookPaths \cup {<<"@relay", "markdown">>}

\* the relative and absolute paths of the resolution checks
RelativePaths ==
    { <<".", "sibling.jsx">>, <<".", "x.jsx">>, <<"components", "view.jsx">>, <<"..", "x.jsx">>,
      <<".", "..", "..", "x.jsx">>, <<"..", "..", "..", "x.jsx">> }

AbsolutePaths == {GetClient, <<"", "x.jsx">>}

RootHook == <<"", "index.jsx">>

FromPaths == {GetClient, LibModule, RootHook}

IsAbsolute(path) == path # <<>> /\ path[1] = ""

\* the directory of a path: the path without its last segment
Dirname(path) == SubSeq(path, 1, Len(path) - 1)

\* A join that stays at the root when `..` would climb above it, as the
\* resolution of a URL does.
RECURSIVE JoinClamped(_, _)
JoinClamped(dir, rest) ==
    IF rest = <<>> THEN [ok |-> TRUE, key |-> dir]
    ELSE IF Head(rest) \in {".", ""} THEN JoinClamped(dir, Tail(rest))
    ELSE IF Head(rest) = ".."
         THEN IF Len(dir) <= 1 THEN JoinClamped(dir, Tail(rest))
              ELSE JoinClamped(Dirname(dir), Tail(rest))
    ELSE JoinClamped(Append(dir, Head(rest)), Tail(rest))

\* path-join of the segments of a relative path onto a directory: `.` stays,
\* `..` goes to the parent, and a `..` at the peer root is a ResolutionError
RECURSIVE Join(_, _)
Join(dir, rest) ==
    IF rest = <<>> THEN [ok |-> TRUE, key |-> dir]
    ELSE IF Head(rest) \in {".", ""} THEN Join(dir, Tail(rest))
    ELSE IF Head(rest) = ".."
         THEN IF Len(dir) <= 1 THEN [ok |-> FALSE, key |-> <<>>]
              ELSE Join(Dirname(dir), Tail(rest))
    ELSE Join(Append(dir, Head(rest)), Tail(rest))

\* the module key of a path: an absolute path is its own key, any other path
\* is joined onto the directory of fromPath
ResolvePath(path, from) ==
    IF IsAbsolute(path) THEN [ok |-> TRUE, key |-> path]
    ELSE Join(Dirname(from), path)

\* the paths a loader may hold a cache entry for
ModuleKeys ==
    HookPaths \cup AbsolutePaths \cup
    { JoinClamped(Dirname(from), path).key : path \in RelativePaths, from \in FromPaths }

RunningStages == {"fetch", "transpile", "execute"}

\* the value a failed load is rejected with, `{phase, message, cause?}`:
\* an Error instance or a plain object, message and stack as JavaScript values
ErrorValue(isError, message, stack) ==
    [isError |-> isError, message |-> message, stack |-> stack]

NoError == ErrorValue(FALSE, Undef, Undef)

Text(word) == Str(<<word>>)

\* the rejection of a load: an Error with a message and a stack
LoadError == ErrorValue(TRUE, Text("load failed"), Text("at load"))

\* String(e) of a rejection value
StringOfError(e) ==
    IF ~e.isError THEN Text("[object Object]")
    ELSE IF Truthy(e.message) THEN Str(<<"Error: ">> \o e.message.s)
    ELSE Text("Error")

\* const message = e?.message || String(e); const stack = e?.stack || '';
\* const fullError = stack ? `${message}\n\nStack Trace:\n${stack}` : message
FullError(e) ==
    LET message == JsOr(e.message, StringOfError(e))
        stack == JsOr(e.stack, Str(<<>>))
    IN  IF Truthy(stack) THEN Str(message.s \o <<"\n\nStack Trace:\n">> \o stack.s)
        ELSE message

\* new Error('hook loader not initialized')
NotInitialized == ErrorValue(TRUE, Text("hook loader not initialized"), Text("at tryRender"))

\* the element a hook returns
ElementOf(key) == [t |-> "element", s |-> <<>>, n |-> 0, hook |-> key]

NoLoad ==
    [key |-> <<>>, stage |-> "unused", phase |-> "none", err |-> NoError, base |-> <<>>,
     prev |-> <<>>]

NoRuns == [fetch |-> 0, transpile |-> 0, execute |-> 0]

\* a caller: path is the module key once the path asked for is resolved,
\* inside is the load whose running code made the call, 0 for the renderer
IdleCaller ==
    [pc |-> "idle", kind |-> "none", path |-> <<>>, asked |-> <<>>, fromArg |-> <<>>,
     from |-> <<>>, inside |-> 0, load |-> 0, outcome |-> "none", phase |-> "none"]

Waiting(kind, key, id, call) ==
    [pc |-> "waiting", kind |-> kind, path |-> key, asked |-> call.asked,
     fromArg |-> call.fromArg, from |-> call.from, inside |-> call.inside, load |-> id,
     outcome |-> "none", phase |-> "none"]

Returned(kind, outcome, phase, call) ==
    [pc |-> "done", kind |-> kind, path |-> call.asked, asked |-> call.asked,
     fromArg |-> call.fromArg, from |-> call.from, inside |-> call.inside, load |-> 0,
     outcome |-> outcome, phase |-> phase]

\* the arguments of a call
CallOf(asked, fromArg, from, inside) ==
    [asked |-> asked, fromArg |-> fromArg, from |-> from, inside |-> inside]

\* the loads started so far
Started == { id \in LoadIds : loads[id].stage # "unused" }

InFlight(lds, key) ==
    { id \in LoadIds : lds[id].key = key /\ lds[id].stage \in RunningStages }

\* the cache consulted for completed loads only
CachedLoadWhenReady(cch, lds, key) ==
    IF cch[key] # 0 /\ lds[cch[key]].stage = "ready" THEN cch[key] ELSE 0

\* the load whose promise the cache holds for the key, pending or completed; 0 for none
CachedLoad(cch, lds, key) == cch[key]

\* a failure that leaves the entry in the cache
CacheAfterFailureKept(cch, key, id) == cch

\* a failed load is evicted
CacheAfterFailure(cch, key, id) ==
    IF cch[key] = id THEN [cch EXCEPT ![key] = 0] ELSE cch

\* useEffect of HookRenderer for a host: loaderRef.current = new HookLoader({...});
\* styleManager.startAutoSync(); styleManager.requestRender()
CreateLoader ==
    /\ ~loaderReady
    /\ loaderReady' = TRUE
    /\ cache' = [k \in ModuleKeys |-> 0]
    /\ autoSyncActive' = TRUE
    /\ RequestEffects("requestRender")
    /\ UNCHANGED <<loads, runs, callers, currentModulePath>>
    /\ UNCHANGED <<registryVars, lastSet, pendingImports, importOutcome, cssVars, callVars>>
    /\ UNCHANGED styleTargets
    /\ UNCHANGED <<jsxVars, rendererVars, adapterVars, appVars>>

\* the cleanup of that effect when the renderer unmounts: styleManager.stopAutoSync()
UnmountRenderer ==
    /\ loaderReady
    /\ loaderReady' = FALSE
    /\ StopAutoSyncBy
    /\ UNCHANGED <<cache, loads, runs, callers, currentModulePath>>
    /\ UNCHANGED <<registryVars, lastSet, pendingImports, importOutcome, cssVars, callVars>>
    /\ UNCHANGED <<jsxVars, rendererVars, adapterVars, appVars>>

\* the context a load is started with: tryRender passes createHookContext(path),
\* helpers.loadModule passes createHookContext(fromPath)
ContextBase(kind, key, from) == IF kind = "hook" THEN key ELSE from

\* HookLoader.loadModule / loadAndExecuteHook: the path is resolved; a path
\* that does not resolve fails with a ResolutionError; for a key the cached
\* promise is returned when there is one, else a new load is started and its
\* fetch is issued
LoaderLoad(c, kind, call) ==
    LET r == ResolvePath(call.asked, call.from)
        hit == CachedLoad(cache, loads, r.key)
        id == Cardinality(Started) + 1
    IN  IF ~r.ok
        THEN /\ callers' = [callers EXCEPT ![c] = Returned(kind, "error", "resolve", call)]
             /\ UNCHANGED <<cache, loads, runs>>
        ELSE IF hit # 0
        THEN /\ callers' = [callers EXCEPT ![c] = Waiting(kind, r.key, hit, call)]
             /\ UNCHANGED <<cache, loads, runs>>
        ELSE /\ id \in LoadIds
             /\ loads' = [loads EXCEPT ![id] =
                    [key |-> r.key, stage |-> "fetch", phase |-> "none", err |-> NoError,
                     base |-> ContextBase(kind, r.key, call.from), prev |-> <<>>]]
             /\ runs' = [runs EXCEPT ![id].fetch = @ + 1]
             /\ cache' = [cache EXCEPT ![r.key] = id]
             /\ callers' = [callers EXCEPT ![c] = Waiting(kind, r.key, id, call)]

\* An anchor that ignores the fromPath argument.
FromPathWithoutArg(fromArg, current, base) == IF current # <<>> THEN current ELSE base

\* const fromPath = fromPathArg || window.__currentModulePath || baseHookPath
FromPath(fromArg, current, base) ==
    IF fromArg # <<>> THEN fromArg ELSE IF current # <<>> THEN current ELSE base

\* the code that may call the helpers: the renderer (0), or a load in its
\* execute stage
MayCall(inside) == IF inside = 0 THEN TRUE ELSE loads[inside].stage = "execute"

\* the baseHookPath of the context whose helpers the code of `inside` calls:
\* the renderer's own context, or the context its load was started with
BaseHookPath(inside) == IF inside = 0 THEN GetClient ELSE loads[inside].base

\* helpers.loadModule(modulePath, fromPathArg) of the context of `inside`
LoadModule(c, path, fromArg, inside) ==
    LET call == CallOf(path, fromArg,
                       FromPath(fromArg, currentModulePath, BaseHookPath(inside)), inside)
    IN  /\ callers[c].pc \in {"idle", "done"}
        /\ MayCall(inside)
        /\ IF path \in BuiltinModules
           THEN /\ callers' = [callers EXCEPT ![c] = Returned("module", "builtin", "none", call)]
                /\ UNCHANGED <<cache, loads, runs>>
           ELSE IF ~loaderReady
           THEN /\ callers' = [callers EXCEPT ![c] =
                       Returned("module", "error", "loader not ready", call)]
                /\ UNCHANGED <<cache, loads, runs>>
           ELSE LoaderLoad(c, "module", call)
        /\ UNCHANGED <<loaderReady, currentModulePath>>
        /\ UNCHANGED notLoader

\* tryRender: setLoading(true); setError(null); setElement(null);
\* if (!loaderRef.current) throw ...; loaderRef.current.loadAndExecuteHook(path, ctx)
\* up to the await; a throw before it goes to the catch and the finally
LoadAndExecuteHook(c, key) ==
    LET call == CallOf(key, <<>>, <<"">>, 0)
    IN  /\ callers[c].pc \in {"idle", "done"}
        /\ element' = Null
        /\ latestRun' = c
        /\ IF ~loaderReady
           THEN /\ callers' = [callers EXCEPT ![c] =
                       Returned("hook", "error", "hook loader not initialized", call)]
                /\ error' = FullError(NotInitialized)
                /\ loading' = FALSE
                /\ UNCHANGED <<cache, loads, runs>>
           ELSE /\ LoaderLoad(c, "hook", call)
                /\ error' = Null
                /\ loading' = TRUE
        /\ UNCHANGED <<loaderReady, currentModulePath>>
        /\ UNCHANGED <<bridgeVars, jsxVars, adapterVars, appVars>>

\* A pipeline that goes from the fetch to the execution.
NextStageSkipsTranspile(stage) ==
    CASE stage = "fetch" -> "execute"
      [] stage = "transpile" -> "execute"
      [] stage = "execute" -> "ready"

\* a stage of the pipeline completes: the next stage is invoked, or the load
\* fails with the phase of the stage and is evicted
NextStage(stage) ==
    CASE stage = "fetch" -> "transpile"
      [] stage = "transpile" -> "execute"
      [] stage = "execute" -> "ready"

\* the loads whose promise the running code of a load awaits
AwaitedBy(id) == { callers[c].load : c \in { d \in Callers :
                      callers[d].pc = "waiting" /\ callers[d].inside = id } }

\* A load whose code goes on while it awaits a promise.
RunsWhileAwaiting(id) == loads[id].stage \in RunningStages

\* the code of a load runs: it is in a pipeline stage and awaits no promise
Runs(id) == loads[id].stage \in RunningStages /\ AwaitedBy(id) = {}

\* the loader tracks the executing module in window.__currentModulePath: it
\* sets the global to the module's key when the module starts executing and
\* puts back the path it replaced when the module's execution ends
CurrentAfterStage(id, stage) ==
    IF stage = "execute" THEN loads[id].key
    ELSE IF loads[id].stage = "execute" THEN loads[id].prev
    ELSE currentModulePath

\* the path the loader keeps to put back: the one the global held when the
\* load's execution started, kept while the module executes
PathBeforeStage(id, current) ==
    IF loads[id].stage = "transpile" THEN current ELSE <<>>

StageSucceeds(id) ==
    /\ Runs(id)
    /\ loads' = [loads EXCEPT ![id].stage = NextStage(@),
                              ![id].prev = PathBeforeStage(id, currentModulePath)]
    /\ currentModulePath' = CurrentAfterStage(id, NextStage(loads[id].stage))
    /\ runs' = IF loads[id].stage = "fetch" THEN [runs EXCEPT ![id].transpile = @ + 1]
               ELSE IF loads[id].stage = "transpile" THEN [runs EXCEPT ![id].execute = @ + 1]
               ELSE runs
    /\ UNCHANGED <<loaderReady, cache, callers>>
    /\ UNCHANGED notLoader

StageFails(id) ==
    /\ Runs(id)
    /\ loads' = [loads EXCEPT ![id].stage = "failed", ![id].phase = loads[id].stage,
                              ![id].err = LoadError, ![id].prev = <<>>]
    /\ cache' = CacheAfterFailure(cache, loads[id].key, id)
    /\ currentModulePath' = CurrentAfterStage(id, "failed")
    /\ UNCHANGED <<loaderReady, runs, callers>>
    /\ UNCHANGED notLoader

\* the continuation of a caller awaiting the promise of its load; tryRender
\* goes on with setElement(el) and styleManager.renderCssIntoDom(), or with
\* setError(fullError) in its catch, and with setLoading(false) in its finally
SettleWith(c, e, styleThrows) ==
    LET load == loads[callers[c].load]
    IN  /\ callers[c].pc = "waiting"
        /\ load.stage \in {"ready", "failed"}
        /\ callers' = [callers EXCEPT ![c].pc = "done",
                                      ![c].outcome =
                                          IF load.stage = "failed" THEN "error"
                                          ELSE IF callers[c].kind = "hook" THEN "element"
                                          ELSE "exports",
                                      ![c].phase = load.phase]
        /\ IF callers[c].kind = "hook" /\ load.stage = "ready"
           THEN /\ element' = ElementOf(load.key)
                /\ IF styleThrows THEN UNCHANGED <<cssVars, callVars, styleVars>>
                   ELSE RenderCssIntoDomBy(e)
                /\ loading' = FALSE
                /\ UNCHANGED error
                /\ UNCHANGED <<registryVars, lastSet, pendingImports, importOutcome>>
           ELSE IF callers[c].kind = "hook"
           THEN /\ error' = FullError(load.err)
                /\ loading' = FALSE
                /\ UNCHANGED element
                /\ UNCHANGED bridgeVars
           ELSE UNCHANGED <<bridgeVars, rendererVars>>
        /\ UNCHANGED <<loaderReady, cache, loads, runs, currentModulePath, latestRun>>
        /\ UNCHANGED <<jsxVars, adapterVars, appVars>>

Settle(c, e) == SettleWith(c, e, FALSE)

\* the continuation of tryRender when styleManager.renderCssIntoDom() throws:
\* try { styleManager.renderCssIntoDom() } catch (e) { }
SettleStyleThrows(c) == SettleWith(c, NoEnv, TRUE)

----------------------------------------------------------------------------
(* FileRendererAdapter: HookRenderer.tsx *)

\* the number of fetches the effects of the adapter may start
MaxFetches == 3

FetchIds == 1..MaxFetches

\* the files asked for and the content-type headers of the responses, null
\* for a response without the header
AdapterPaths == {"a.md", "b.txt"}

ContentTypes == {"text/markdown", "null"}

\* useState(''), useState('text/plain'), useState(true); effect is the fetch
\* of the effect that is in place, 0 before the mount
NoAdapter ==
    [mounted |-> FALSE, path |-> "", content |-> "", contentType |-> "text/plain",
     loading |-> TRUE, effect |-> 0]

\* a fetch: stage is where its async function stands, doneAt the rank of its
\* completion among the completions
NoFetch == [path |-> "", stage |-> "unused", cancelled |-> FALSE, doneAt |-> 0]

StartedFetches == { id \in FetchIds : fetches[id].stage # "unused" }

DoneFetches == { id \in FetchIds : fetches[id].stage = "done" }

\* the text of the file at a path
TextOf(path) == "text of " \o path

\* resp.headers.get('content-type') || 'text/plain'
ContentTypeOf(header) == IF header = "null" THEN "text/plain" ELSE header

\* A cleanup that leaves the flag as it was.
CleanupKeeps(fs, id) == fs

\* return () => { cancelled = true }
Cleanup(fs, id) == IF id = 0 THEN fs ELSE [fs EXCEPT ![id].cancelled = TRUE]

\* the effect body up to `await fetch(url)`
StartFetch(fs, id, path) ==
    [fs EXCEPT ![id] = [path |-> path, stage |-> "fetch", cancelled |-> FALSE, doneAt |-> 0]]

\* the adapter is mounted and its effect runs
MountAdapter(path) ==
    LET id == Cardinality(StartedFetches) + 1
    IN  /\ ~adapter.mounted
        /\ adapter.effect = 0
        /\ id \in FetchIds
        /\ adapter' = [NoAdapter EXCEPT !.mounted = TRUE, !.path = path, !.effect = id]
        /\ fetches' = StartFetch(fetches, id, path)
        /\ UNCHANGED notAdapter

\* the path prop changes: the cleanup of the effect runs, then the effect
ChangePath(path) ==
    LET id == Cardinality(StartedFetches) + 1
    IN  /\ adapter.mounted
        /\ path # adapter.path
        /\ id \in FetchIds
        /\ adapter' = [adapter EXCEPT !.path = path, !.effect = id]
        /\ fetches' = StartFetch(Cleanup(fetches, adapter.effect), id, path)
        /\ UNCHANGED notAdapter

\* the adapter is unmounted: the cleanup of the effect runs
UnmountAdapter ==
    /\ adapter.mounted
    /\ adapter' = [adapter EXCEPT !.mounted = FALSE]
    /\ fetches' = Cleanup(fetches, adapter.effect)
    /\ UNCHANGED notAdapter

\* the fetch is over: } catch (e) { if (!cancelled) setContent('') }
\* finally { if (!cancelled) setLoading(false) }
FetchDone(fs, id) ==
    [fs EXCEPT ![id].stage = "done", ![id].doneAt = Cardinality(DoneFetches) + 1]

Throws(id) ==
    /\ adapter' = IF fetches[id].cancelled THEN adapter
                  ELSE [adapter EXCEPT !.content = "", !.loading = FALSE]
    /\ fetches' = FetchDone(fetches, id)
    /\ UNCHANGED notAdapter

\* `await fetch(url)` resolves with the response
FetchResponds(id) ==
    /\ fetches[id].stage = "fetch"
    /\ fetches' = [fetches EXCEPT ![id].stage = "text"]
    /\ UNCHANGED adapter
    /\ UNCHANGED notAdapter

\* `await fetch(url)` is rejected
FetchRejects(id) ==
    /\ fetches[id].stage = "fetch"
    /\ Throws(id)

\* `await resp.text()` resolves: if (!cancelled) { setContent(txt);
\* setContentType(...) }, then the finally block
TextResolves(id, header) ==
    /\ fetches[id].stage = "text"
    /\ adapter' = IF fetches[id].cancelled THEN adapter
                  ELSE [adapter EXCEPT !.content = TextOf(fetches[id].path),
                                       !.contentType = ContentTypeOf(header),
                                       !.loading = FALSE]
    /\ fetches' = FetchDone(fetches, id)
    /\ UNCHANGED notAdapter

\* `await resp.text()` is rejected
TextRejects(id) ==
    /\ fetches[id].stage = "text"
    /\ Throws(id)

----------------------------------------------------------------------------
(* Specifications *)

Init ==
    /\ usage = EmptyUsage
    /\ themes = << >>
    /\ currentTheme = Null
    /\ themeOrder = <<>>
    /\ lastSet = Null
    /\ importOutcome = "none"
    /\ engineState = NoState
    /\ env = NoEnv
    /\ scheduledPasses = 0
    /\ autoSyncActive = FALSE
    /\ styleTargets = <<>>
    /\ requestsInTick = 0
    /\ smLast = "none"
    /\ requestedSince = FALSE
    /\ pendingImports = 0
    /\ renderRequested = FALSE
    /\ returned = Undef
    /\ last = NoCall
    /\ prevOp = "none"
    /\ repeated = FALSE
    /\ jsxCall = NoJsxCall
    /\ jsxElement = NoElement
    /\ jsxFactory = NoFactory
    /\ jsxMapped = NoMap
    /\ hookCall = NoHookCall
    /\ loaderReady = FALSE
    /\ cache = [k \in ModuleKeys |-> 0]
    /\ loads = [id \in LoadIds |-> NoLoad]
    /\ runs = [id \in LoadIds |-> NoRuns]
    /\ callers = [c \in Callers |-> IdleCaller]
    /\ currentModulePath = <<>>
    /\ loading = FALSE
    /\ error = Null
    /\ element = Null
    /\ latestRun = "none"
    /\ adapter = NoAdapter
    /\ fetches = [id \in FetchIds |-> NoFetch]
    /\ peerCall = NoPeerCall
    /\ renderers = [r \in RendererIds |-> NoRenderer]
    /\ defaults = NoDefaults
    /\ boot = NoBoot

NextUsage ==
    \/ \E tag \in Tags, props \in PropsValues : RegisterUsage(tag, props)
    \/ ClearUsage
    \/ GetUsageSnapshot

SpecUsage == Init /\ [][NextUsage]_vars

NextTheme ==
    \/ \E name \in ThemeNames, defs \in DefsValues : RegisterTheme(name, defs)
    \/ \E name \in ActiveNames : SetCurrentTheme(name)
    \/ StyleManagerImported

SpecTheme == Init /\ [][NextTheme]_vars

\* the inputs of the CSS generation checks
CssTags == {<<"p">>}

CssProps == {Props(Str(<<"a">>), Undef)}

CssDefs == {Obj(1)}

NextCss ==
    \/ \E tag \in CssTags, props \in CssProps : RegisterUsage(tag, props)
    \/ \E name \in ThemeNames, defs \in CssDefs : RegisterTheme(name, defs)
    \/ \E name \in ActiveNames : SetCurrentTheme(name)
    \/ StyleManagerImported
    \/ \E e \in Envs : GetCssForWeb(e)

SpecCss == Init /\ [][NextCss]_vars

\* the inputs and platforms of the style manager checks
StyleEnvs == {Env("wasm", "ok", "none"), Env("absent", "none", "none")}

StyleThemeNames == {<<"d", "a", "r", "k">>}

NextStyle ==
    \/ \E tag \in CssTags, props \in CssProps : RegisterUsageFromElement(tag, props)
    \/ RequestRenderCall
    \/ \E e \in StyleEnvs : RenderPass(e)
    \/ \E e \in StyleEnvs : RenderCssIntoDom(e)
    \/ AutoSyncTick
    \/ StartAutoSync
    \/ StopAutoSync
    \/ CreateLoader
    \/ UnmountRenderer

SpecStyle == Init /\ [][NextStyle]_vars

\* the calls that are to trigger a render, directly on the registry and through
\* the helpers of the hook context
NextTrigger ==
    \/ \E tag \in CssTags, props \in CssProps : RegisterUsage(tag, props)
    \/ \E tag \in CssTags, props \in CssProps : RegisterUsageFromElement(tag, props)
    \/ \E name \in StyleThemeNames, defs \in CssDefs : RegisterTheme(name, defs)
    \/ \E name \in StyleThemeNames, defs \in CssDefs, e \in StyleEnvs :
          RegisterThemeStyles(name, defs, e)
    \/ \E name \in ActiveNames : SetCurrentTheme(name)
    \/ StyleManagerImported
    \/ StyleManagerImportFails
    \/ \E e \in StyleEnvs : RenderPass(e)

\* the event loop runs every settled import callback and every scheduled pass
SpecTrigger ==
    /\ Init
    /\ [][NextTrigger]_vars
    /\ WF_vars(StyleManagerImported \/ StyleManagerImportFails)
    /\ WF_vars(\E e \in StyleEnvs : RenderPass(e))

NextJsx ==
    \/ \E React \in ReactValues : CreateJsxFactoryCall(React)
    \/ \E type \in ElementTypes, config \in ConfigValues, maybeKey \in MaybeKeyValues :
          JsxCall(type, config, maybeKey)

SpecJsx == Init /\ [][NextJsx]_vars

\* the calls of the tests of the third parameter: one call with a key, and a
\* list mapped with each item as the key
NextKeys ==
    \/ CreateJsxFactoryCall(MockReact)
    \/ \E maybeKey \in MaybeKeyValues : JsxCall("div", Config([children |-> Hello]), maybeKey)
    \/ \E items \in ItemLists : JsxMap(items)

SpecKeys == Init /\ [][NextKeys]_vars

\* the platform of the renderer: a browser with the style engine loaded
LoaderEnvs == {Env("wasm", "ok", "none")}

\* two callers outside the running modules: renderers, or a renderer and a component
TopCallers == {"c1", "c2"}

NextLoader ==
    \/ CreateLoader
    \/ \E c \in TopCallers, path \in ModulePaths : LoadModule(c, path, <<>>, 0)
    \/ \E key \in HookPaths : LoadAndExecuteHook("c1", key)
    \/ \E id \in LoadIds : StageSucceeds(id)
    \/ \E id \in LoadIds : StageFails(id)
    \/ \E c \in TopCallers, e \in LoaderEnvs : Settle(c, e)

SpecLoader == Init /\ [][NextLoader]_vars

\* the calls of the resolution checks: the path, the fromPath argument
\* (empty when omitted) and window.__currentModulePath (empty when unset)
ResolveCalls ==
    { <<<<".", "sibling.jsx">>, GetClient>>,
      <<<<".", "sibling.jsx">>, <<>>>>,
      <<<<"components", "view.jsx">>, LibModule>>,
      <<<<"..", "x.jsx">>, RootHook>>,
      <<<<"..", "x.jsx">>, GetClient>>,
      <<<<".", "..", "..", "x.jsx">>, GetClient>>,
      <<<<"..", "..", "..", "x.jsx">>, <<>>>>,
      <<<<"..", "..", "..", "x.jsx">>, LibModule>>,
      <<GetClient, LibModule>>,
      <<<<"", "x.jsx">>, RootHook>>,
      <<<<"", "x.jsx">>, <<>>>> }

\* the resolution of the paths a module or a component asks for
NextResolve ==
    \/ CreateLoader
    \/ \E call \in ResolveCalls : LoadModule("c1", call[1], call[2], 0)
    \/ \E id \in LoadIds : StageSucceeds(id)
    \/ \E e \in LoaderEnvs : Settle("c1", e)

SpecResolve == Init /\ [][NextResolve]_vars

\* the runs of tryRender, with a renderCssIntoDom that may throw
NextRender ==
    \/ CreateLoader
    \/ \E c \in TopCallers, key \in HookPaths : LoadAndExecuteHook(c, key)
    \/ \E id \in LoadIds : StageSucceeds(id)
    \/ \E id \in LoadIds : StageFails(id)
    \/ \E c \in TopCallers, e \in LoaderEnvs : Settle(c, e)
    \/ \E c \in TopCallers : SettleStyleThrows(c)

SpecRender == Init /\ [][NextRender]_vars

\* the elements a hook creates, with style-pipeline calls that may throw
NextCreator ==
    \/ \E type \in CreatorTypes, props \in CreatorProps, children \in CreatorChildren,
          fault \in Faults : HookCreateElement(type, props, children, fault)
    \/ ClearUsage
    \/ \E e \in LoaderEnvs : RenderPass(e)

SpecCreator == Init /\ [][NextCreator]_vars

\* the elements reported between theme operations
RegistryTags == {<<"p">>, <<"q">>}

RegistryProps == {Props(Str(<<"a", " ", "b">>), Undef), Props(Undef, Str(<<"c">>))}

\* registry and theme operations of the bridge in any order
NextRegistry ==
    \/ \E tag \in RegistryTags, props \in RegistryProps : RegisterUsage(tag, props)
    \/ ClearUsage
    \/ GetUsageSnapshot
    \/ \E name \in StyleThemeNames, defs \in CssDefs : RegisterTheme(name, defs)
    \/ \E name \in ActiveNames : SetCurrentTheme(name)
    \/ StyleManagerImported

SpecRegistry == Init /\ [][NextRegistry]_vars

\* the renderers of a page are mounted and unmounted while the style manager
\* runs its passes
NextMount ==
    \/ \E r \in RendererIds, host \in RendererHosts : MountRenderer(r, host)
    \/ \E r \in RendererIds, host \in RendererHosts : ChangeHost(r, host)
    \/ \E r \in RendererIds : UnmountRendererOf(r)
    \/ AutoSyncTick
    \/ \E e \in LoaderEnvs : RenderPass(e)

SpecMount == Init /\ [][NextMount]_vars

\* the default themes are asked for by bootstrap and by a later caller while
\* the application sets its theme
NextDefaults ==
    \/ \E c \in DefaultCallers : EnsureDefaultsLoaded(c)
    \/ \E c \in DefaultCallers, result \in YamlResults : ThemeYamlFetched(c, result)
    \/ \E c \in DefaultCallers, result \in ShimResults : ShimSettles(c, result)
    \/ \E name \in StyleThemeNames \cup {<<>>} : SetCurrentTheme(name)
    \/ StyleManagerImported

SpecDefaults == Init /\ [][NextDefaults]_vars

\* bootstrap runs while another importer of the bridge asks for the defaults
NextBoot ==
    \/ \E ok \in BOOLEAN : BootImportsShared(ok)
    \/ \E ok \in BOOLEAN : InitAllWasmsSettles(ok)
    \/ \E result \in SharedResults : BootCallsDefaults(result)
    \/ BootDefaultsReturned
    \/ BootRenders
    \/ EnsureDefaultsLoaded("late")
    \/ \E c \in DefaultCallers, result \in YamlResults : ThemeYamlFetched(c, result)
    \/ \E c \in DefaultCallers, result \in ShimResults : ShimSettles(c, result)
    \/ StyleManagerImported

\* every pending promise settles and every continuation runs
SpecBoot == Init /\ [][NextBoot]_vars /\ WF_vars(NextBoot)

NextPeer == \E host \in PeerHosts, path \in PeerPaths : BuildPeerUrl(host, path)

SpecPeer == Init /\ [][NextPeer]_vars

\* a FileRendererAdapter whose path changes while its fetches are in flight
NextAdapter ==
    \/ \E path \in AdapterPaths : MountAdapter(path)
    \/ \E path \in AdapterPaths : ChangePath(path)
    \/ UnmountAdapter
    \/ \E id \in FetchIds : FetchResponds(id)
    \/ \E id \in FetchIds : FetchRejects(id)
    \/ \E id \in FetchIds, header \in ContentTypes : TextResolves(id, header)
    \/ \E id \in FetchIds : TextRejects(id)

SpecAdapter == Init /\ [][NextAdapter]_vars

\* the code a caller stands for in the re-entrancy checks: c1 is the renderer,
\* c2 the code of the first load, c3 the code of the second load or a component
CallSites(c) == IF c = "c2" THEN {1} ELSE IF c = "c3" THEN {0, 2} ELSE {0}

\* hooks whose modules call helpers.loadModule while they run
NextReentrant ==
    \/ CreateLoader
    \/ LoadAndExecuteHook("c1", GetClient)
    \/ \E c \in {"c2", "c3"}, path \in HookPaths, inside \in LoadIds \cup {0} :
          /\ inside \in CallSites(c)
          /\ LoadModule(c, path, <<>>, inside)
    \/ \E id \in LoadIds : StageSucceeds(id)
    \/ \E id \in LoadIds : StageFails(id)
    \/ \E c \in Callers, e \in LoaderEnvs : Settle(c, e)

\* the code of a load that can go on does go on, and the continuation of a
\* settled promise is run
SpecReentrant ==
    /\ Init
    /\ [][NextReentrant]_vars
    /\ \A id \in LoadIds : SF_vars(StageSucceeds(id) \/ StageFails(id))
    /\ \A c \in Callers : WF_vars(\E e \in LoaderEnvs : Settle(c, e))

\* the paths modules and components ask for without a fromPath
AnchorPaths == {<<".", "x.jsx">>, LibModule}

\* a hook and the modules loaded beside it call helpers.loadModule without a
\* fromPath while they execute
NextAnchor ==
    \/ CreateLoader
    \/ LoadAndExecuteHook("c1", GetClient)
    \/ \E c \in {"c2", "c3"}, path \in AnchorPaths, inside \in LoadIds \cup {0} :
          /\ inside \in CallSites(c)
          /\ LoadModule(c, path, <<>>, inside)
    \/ \E id \in LoadIds : StageSucceeds(id)
    \/ \E id \in LoadIds : StageFails(id)
    \/ \E c \in Callers, e \in LoaderEnvs : Settle(c, e)

SpecAnchor == Init /\ [][NextAnchor]_vars

----------------------------------------------------------------------------
(* Usage registry properties *)

\* the maximal runs of non-whitespace characters of a string
Tokens(str) ==
    { SubSeq(str, r[1], r[2]) :
        r \in { q \in (1..Len(str)) \X (1..Len(str)) :
                  /\ q[1] <= q[2]
                  /\ \A m \in q[1]..q[2] : ~IsWs(str[m])
                  /\ (q[1] = 1 \/ IsWs(str[q[1] - 1]))
                  /\ (q[2] = Len(str) \/ IsWs(str[q[2] + 1])) } }

\* the class-like attribute: className, or class when className is empty or absent
ClassLike(props) ==
    IF ~props.present THEN Undef
    ELSE IF Truthy(props.className) THEN props.className ELSE props.class

ClassTokens(props) ==
    IF ClassLike(props).t = "string" THEN Tokens(ClassLike(props).s) ELSE {}

\* C6: registerUsage(tag, props) with a non-empty tag leaves the registry equal
\* to its previous content plus the tag, every whitespace-separated token of
\* the class-like attribute, and the composite key tag|class of each token;
\* nothing else is added and nothing is removed.
C6_RegisterUsageAddsExactly ==
    [][(last'.op = "registerUsage" /\ last'.tag # <<>>
          /\ RegisterUsage(last'.tag, last'.props)) =>
              /\ usage'.tags = usage.tags \cup {last'.tag}
              /\ usage'.classes = usage.classes \cup ClassTokens(last'.props)
              /\ usage'.tagClasses = usage.tagClasses \cup
                     { last'.tag \o <<"|">> \o c : c \in ClassTokens(last'.props) }]_vars

C6_Witness ==
    /\ last.op = "registerUsage"
    /\ last.tag = <<"p">>
    /\ last.props = Props(Str(<<"b", "\t", "a">>), Undef)
    /\ prevOp = "registerUsage"
    /\ usage.tags = {<<"p">>, <<"q">>}
    /\ usage.classes = {<<"a">>, <<"b">>}
    /\ <<"p", "|", "a">> \in usage.tagClasses
    /\ <<"p", "|", "b">> \in usage.tagClasses
    /\ <<"q", "|", "a">> \in usage.tagClasses

\* C7: registerUsage is idempotent: calling registerUsage(tag, props) twice in
\* a row yields the same usage snapshot (same three sets, same sizes) as
\* calling it once.
C7_RegisterUsageIdempotent ==
    [][(last.op = "registerUsage" /\ RegisterUsage(last.tag, last.props)) =>
              /\ UsageSnapshotOf(usage') = UsageSnapshotOf(usage)
              /\ Cardinality(usage'.tags) = Cardinality(usage.tags)
              /\ Cardinality(usage'.classes) = Cardinality(usage.classes)
              /\ Cardinality(usage'.tagClasses) = Cardinality(usage.tagClasses)]_vars

C7_Witness ==
    /\ last.op = "registerUsage"
    /\ repeated
    /\ last.tag # <<>>
    /\ Cardinality(ClassTokens(last.props)) = 2
    /\ Cardinality(usage.tagClasses) = 2

\* C8: after any sequence of registerUsage calls, clearUsage() followed by
\* getUsageSnapshot() returns three empty collections.
C8_SnapshotAfterClearEmpty ==
    (last.op = "getUsageSnapshot" /\ prevOp = "clearUsage") =>
        /\ returned.tags = {}
        /\ returned.classes = {}
        /\ returned.tagClasses = {}

C8_Witness ==
    /\ last.op = "getUsageSnapshot"
    /\ prevOp = "clearUsage"
    /\ returned = EmptyUsage
    /\ usage = EmptyUsage

----------------------------------------------------------------------------
(* Theme registry properties *)

IsRegisterTheme(call, name, defs) ==
    call = Call("registerTheme", <<>>, NoProps, name, defs)

\* no theme is active: currentTheme is null or the empty string
NoActiveTheme(cur) == cur = Null \/ cur = Str(<<>>)

\* C9 as stated: the first registerTheme call sets currentTheme to its name
\* and no later registerTheme call changes currentTheme.
C9_Original ==
    [][(last'.op = "registerTheme" /\ RegisterTheme(last'.name, last'.defs)) =>
              IF DOMAIN themes = {}
              THEN currentTheme' = Str(last'.name)
              ELSE currentTheme' = currentTheme]_vars

\* C9 (amended): a registerTheme(name) call made while no theme is active
\* (currentTheme null or empty) sets currentTheme to name; a registerTheme call
\* made while a theme is active, whether it was activated by an earlier
\* registerTheme or by setCurrentTheme, leaves currentTheme unchanged.
C9_RegisterActivatesOnlyWhenNoneActive ==
    [][(last'.op = "registerTheme" /\ RegisterTheme(last'.name, last'.defs)) =>
              IF NoActiveTheme(currentTheme)
              THEN currentTheme' = Str(last'.name)
              ELSE currentTheme' = currentTheme]_vars

C9_Witness ==
    /\ last.op = "registerTheme"
    /\ prevOp = "setCurrentTheme"
    /\ DOMAIN themes = {last.name}
    /\ ~NoActiveTheme(currentTheme)
    /\ currentTheme # Str(last.name)

\* C10 as stated: registerTheme(name, defs) for a registered name replaces the
\* definition of name with defs and leaves currentTheme and the definition of
\* every other theme unchanged.
C10_Original ==
    [][(last'.op = "registerTheme" /\ last'.name \in DOMAIN themes
          /\ RegisterTheme(last'.name, last'.defs)) =>
              /\ themes'[last'.name] = last'.defs
              /\ currentTheme' = currentTheme
              /\ DOMAIN themes' = DOMAIN themes
              /\ \A n \in DOMAIN themes \ {last'.name} : themes'[n] = themes[n]]_vars

\* C10 (amended): registerTheme(name, defs) for a registered name replaces the
\* definition of name with defs, or with an empty definition when defs is
\* omitted, and leaves the definition of every other theme unchanged;
\* currentTheme is unchanged when a theme is active and becomes name when none
\* is (currentTheme is the empty string).
C10_ReregisterOverwritesOnlyThatTheme ==
    [][(last'.op = "registerTheme" /\ last'.name \in DOMAIN themes
          /\ RegisterTheme(last'.name, last'.defs)) =>
              /\ themes'[last'.name] = (IF last'.defs = Undef THEN Obj(0) ELSE last'.defs)
              /\ DOMAIN themes' = DOMAIN themes
              /\ \A n \in DOMAIN themes \ {last'.name} : themes'[n] = themes[n]
              /\ ~NoActiveTheme(currentTheme) => currentTheme' = currentTheme
              /\ NoActiveTheme(currentTheme) => currentTheme' = Str(last'.name)]_vars

C10_Witness ==
    /\ IsRegisterTheme(last, <<"d", "a", "r", "k">>, Obj(2))
    /\ repeated
    /\ DOMAIN themes = {<<"d", "a", "r", "k">>, <<"l", "i", "g", "h", "t">>}
    /\ themes[<<"d", "a", "r", "k">>] = Obj(2)
    /\ themes[<<"l", "i", "g", "h", "t">>] = Obj(1)
    /\ currentTheme = Str(<<"l", "i", "g", "h", "t">>)

----------------------------------------------------------------------------
(* CSS generation properties *)

\* the latest bridge call is a CSS render that reached the style engine
RenderReachedEngine == last.op = "getCssForWeb" /\ engineState # NoState

\* the state passed carries the theme map and the usage of the time of the render
CarriesRegistries ==
    /\ engineState.themes = themes
    /\ engineState.used_tags = usage.tags
    /\ engineState.used_classes = usage.classes
    /\ engineState.used_tag_classes = usage.tagClasses

\* C11 as stated: after setCurrentTheme(n), every CSS render made before the
\* next setCurrentTheme passes a state with current_theme equal to n, the theme
\* map and the used tags, classes and tag-class pairs of the usage snapshot.
C11_Original ==
    (RenderReachedEngine /\ lastSet # Null) =>
        /\ engineState.current_theme = lastSet
        /\ CarriesRegistries

\* C11 (amended): after setCurrentTheme(n) with a non-empty n, every CSS render
\* made before the next setCurrentTheme passes a state with current_theme equal
\* to n, the theme map and the used tags, classes and tag-class pairs of the
\* usage snapshot; after setCurrentTheme('') the state carries the theme a later
\* registerTheme activated, and without one the render hook substitutes the
\* first registered theme name, or 'default'.
C11_RenderPassesActiveTheme ==
    (RenderReachedEngine /\ lastSet # Null) =>
        /\ lastSet # Str(<<>>) => engineState.current_theme = lastSet
        /\ (lastSet = Str(<<>>) /\ currentTheme # Str(<<>>)) =>
               /\ currentTheme.s \in DOMAIN themes
               /\ engineState.current_theme = currentTheme
        /\ (lastSet = Str(<<>>) /\ currentTheme = Str(<<>>) /\ env.hook = "wasm") =>
               engineState.current_theme =
                   (IF themeOrder # <<>> THEN Str(themeOrder[1]) ELSE DefaultName)
        /\ CarriesRegistries

C11_Witness ==
    /\ RenderReachedEngine
    /\ env = Env("wasm", "ok", "none")
    /\ lastSet = Str(<<"l", "i", "g", "h", "t">>)
    /\ engineState.current_theme = Str(<<"l", "i", "g", "h", "t">>)
    /\ themeOrder = << <<"d", "a", "r", "k">>, <<"l", "i", "g", "h", "t">> >>
    /\ engineState.used_tag_classes = {<<"p", "|", "a">>}
    /\ returned = CssOf(engineState)

\* the style engine is unavailable: no render hook is installed, or the hook throws
EngineUnavailable == env.hook \in {"absent", "throws"}

ListsUsage(css) ==
    /\ css.kind = "placeholder"
    /\ css.classes = usage.classes
    /\ css.tags = usage.tags
    /\ css.tagClasses = usage.tagClasses

\* C17 as stated: when no render hook is installed, or the hook throws,
\* getCssForWeb returns a diagnostic placeholder that lists the classes, tags
\* and tag-class pairs of the current usage snapshot.
C17_Original ==
    (last.op = "getCssForWeb" /\ EngineUnavailable) => ListsUsage(returned)

\* C17 (amended): when no render hook is installed, or the hook throws, and the
\* hook-transpiler CLI that getCssForWeb falls back to under Node does not
\* produce CSS either, getCssForWeb does not throw and returns a diagnostic
\* placeholder that lists the classes, tags and tag-class pairs of the current
\* usage snapshot; when that CLI produces CSS, its output is returned.
C17_PlaceholderWhenNoEngine ==
    (last.op = "getCssForWeb" /\ EngineUnavailable) =>
        /\ env.node # "cliOk" => ListsUsage(returned)
        /\ env.node = "cliOk" => returned.kind = "css"

C17_Witness ==
    /\ last.op = "getCssForWeb"
    /\ env = Env("throws", "none", "none")
    /\ returned.kind = "placeholder"
    /\ returned.classes = {<<"a">>}
    /\ returned.tags = {<<"p">>}
    /\ returned.tagClasses = {<<"p", "|", "a">>}
    /\ DOMAIN themes # {}

----------------------------------------------------------------------------
(* Style manager properties *)

OnePassScheduled ==
    /\ scheduledPasses <= 1
    /\ renderRequested <=> scheduledPasses = 1

\* a Rendering pass leaves the style manager in Idle
PassReturnsToIdle ==
    scheduledPasses' < scheduledPasses => (~renderRequested' /\ scheduledPasses' = 0)

\* a request made while one is pending schedules nothing more
RequestCoalesced ==
    (renderRequested /\ requestsInTick' > requestsInTick) =>
        (renderRequested' /\ scheduledPasses' = scheduledPasses)

\* C12: requestRender() is idempotent within one scheduling tick: for every
\* N >= 1, N calls made before the next tick produce exactly one Rendering
\* pass, and the style manager is back in Idle after that pass.
C12_RequestRenderCoalesced ==
    /\ []OnePassScheduled
    /\ [][PassReturnsToIdle /\ RequestCoalesced]_vars

C12_Witness ==
    /\ smLast = "renderPass"
    /\ requestsInTick >= 2
    /\ ~renderRequested
    /\ scheduledPasses = 0
    /\ Len(styleTargets) = 1

\* the effect of HookRenderer starts auto-sync and its cleanup stops it
EffectStartsAndStops == loaderReady' # loaderReady => autoSyncActive' = loaderReady'

CommitOps == {"renderPass", "renderCssIntoDom"}

CommitReplaces ==
    /\ (\E e \in StyleEnvs : RenderPass(e) \/ RenderCssIntoDom(e)) =>
           styleTargets' = <<returned'>>
    /\ styleTargets' # styleTargets => (smLast' \in CommitOps /\ styleTargets' = <<returned'>>)

\* C16: after any number of renderCssIntoDom() commits there is exactly one
\* marked style target, and its content is the CSS text of the most recent
\* commit in full.
C16_OneTargetLatestWins ==
    /\ [](Len(styleTargets) <= 1)
    /\ [](smLast \in CommitOps => Len(styleTargets) = 1)
    /\ [][CommitReplaces]_vars

C16_Witness ==
    /\ smLast = "renderCssIntoDom"
    /\ prevOp = "getCssForWeb"
    /\ returned.kind = "placeholder"
    /\ returned.tags # {}
    /\ styleTargets = <<returned>>

----------------------------------------------------------------------------
(* Render trigger properties *)

\* every requested render is eventually performed
PassFollowsRequest == renderRequested ~> ~renderRequested

ResolvedImportRequests ==
    (pendingImports' < pendingImports /\ importOutcome' = "resolved") =>
        (renderRequested' /\ scheduledPasses' = 1)

IsRegistration ==
    \/ \E tag \in CssTags, props \in CssProps :
          RegisterUsage(tag, props) \/ RegisterUsageFromElement(tag, props)
    \/ \E name \in StyleThemeNames, defs \in CssDefs :
          \/ RegisterTheme(name, defs)
          \/ \E e \in StyleEnvs : RegisterThemeStyles(name, defs, e)

\* C15 as stated: every registerUsage call and every registerTheme call,
\* direct or through the hook helpers, leaves the style manager in
\* RenderRequested.
C15_Original == [][IsRegistration => renderRequested']_vars

HelperUsageRequests ==
    \A tag \in CssTags, props \in CssProps :
        RegisterUsageFromElement(tag, props) =>
            /\ renderRequested'
            /\ scheduledPasses' = 1
            /\ tag \in usage'.tags

HelperThemeCommits ==
    \A name \in StyleThemeNames, defs \in CssDefs, e \in StyleEnvs :
        RegisterThemeStyles(name, defs, e) =>
            /\ styleTargets' = <<returned'>>
            /\ e.hook = "wasm" => (engineState'.themes = themes' /\ name \in DOMAIN themes')
            /\ renderRequested' = renderRequested

DirectCallsLeaveManager ==
    (\/ \E tag \in CssTags, props \in CssProps : RegisterUsage(tag, props)
     \/ \E name \in StyleThemeNames, defs \in CssDefs : RegisterTheme(name, defs)) =>
        UNCHANGED styleVars

\* the pass that follows a request sees the registries of its time
PassSeesRegistries ==
    renderRequested ~>
        (smLast = "renderPass" /\ last.op = "getCssForWeb"
           /\ (env.hook = "wasm" => CarriesRegistries))

\* C15 (amended): a registerUsage call made through the element creator of the
\* hook context requests a render, so it moves the style manager from Idle to
\* RenderRequested and is eventually followed by a Rendering pass that sees the
\* new usage; a registerTheme call made through helpers.registerThemeStyles
\* commits CSS generated from the new theme map at once, without a render
\* request; a registerUsage or registerTheme call made directly on the registry
\* leaves the style manager as it is.
C15_HelpersTriggerRender ==
    /\ [][HelperUsageRequests /\ HelperThemeCommits /\ DirectCallsLeaveManager]_vars
    /\ PassSeesRegistries

C15_Witness ==
    /\ last.op = "registerUsage"
    /\ smLast = "requestRender"
    /\ prevOp = "getCssForWeb"
    /\ renderRequested
    /\ Len(styleTargets) = 1
    /\ DOMAIN themes # {}
    /\ usage.tagClasses # {}

----------------------------------------------------------------------------
(* JSX factory properties *)

\* C3: for every type, props and maybeKey with maybeKey !== undefined, the
\* element produced by the JSX factory has key === String(maybeKey), also when
\* props carries its own key field with a different value.
C3_ParamKeyTakesPrecedence ==
    (jsxCall.made /\ jsxCall.maybeKey # Undef) =>
        jsxElement.key = Str(JsString(jsxCall.maybeKey))

\* C4: when maybeKey is undefined and props has a key field, the element has
\* key === String(props.key), its props contain no key field (props.key is
\* undefined), and every other prop is kept.
C4_ConfigKeyExtractedAndStripped ==
    (/\ jsxCall.made
     /\ jsxCall.maybeKey = Undef
     /\ ~jsxCall.config.isNull
     /\ "key" \in DOMAIN jsxCall.config.fields) =>
        /\ jsxElement.key = Str(JsString(jsxCall.config.fields["key"]))
        /\ Field(jsxElement.props, "key") = Undef
        /\ \A f \in DOMAIN jsxCall.config.fields \ {"key"} :
               Field(jsxElement.props, f) = jsxCall.config.fields[f]

\* C5: the factory forwards to the classic creator with no additional
\* children: the props.children of the produced element is exactly the
\* props.children passed in, and className and id are unchanged.
C5_ChildrenAndPropsPassThrough ==
    jsxCall.made =>
        /\ Field(jsxElement.props, "children") = Field(jsxCall.config.fields, "children")
        /\ Field(jsxElement.props, "className") = Field(jsxCall.config.fields, "className")
        /\ Field(jsxElement.props, "id") = Field(jsxCall.config.fields, "id")

----------------------------------------------------------------------------
(* Hook loader properties *)

\* the step is a call of the loader by caller c for a module key
IsLoaderCall(c) ==
    /\ callers[c].pc # "waiting"
    /\ callers'[c].pc = "waiting"

\* the stages a load has gone through, from its stage
StagesRun(load) ==
    CASE load.stage = "unused" -> NoRuns
      [] load.stage = "fetch" -> [fetch |-> 1, transpile |-> 0, execute |-> 0]
      [] load.stage = "transpile" -> [fetch |-> 1, transpile |-> 1, execute |-> 0]
      [] load.stage \in {"execute", "ready"} -> [fetch |-> 1, transpile |-> 1, execute |-> 1]
      [] load.stage = "failed" ->
            [fetch |-> 1,
             transpile |-> IF load.phase = "fetch" THEN 0 ELSE 1,
             execute |-> IF load.phase = "execute" THEN 1 ELSE 0]

OneCyclePerInFlightKey ==
    /\ \A k \in ModuleKeys : Cardinality(InFlight(loads, k)) <= 1
    /\ \A id \in LoadIds : runs[id] = StagesRun(loads[id])
    /\ \A c1, c2 \in Callers :
          (/\ callers[c1].load # 0
           /\ callers[c1].path = callers[c2].path
           /\ callers[c1].load \in InFlight(loads, callers[c1].path)
           /\ callers[c2].load \in InFlight(loads, callers[c2].path)) =>
              callers[c1].load = callers[c2].load
    /\ \A c1, c2 \in Callers :
          (/\ callers[c1].load # 0
           /\ callers[c1].load = callers[c2].load
           /\ callers[c1].pc = "done"
           /\ callers[c2].pc = "done") =>
              /\ (callers[c1].outcome = "error") = (callers[c2].outcome = "error")
              /\ callers[c1].phase = callers[c2].phase

JoinsInFlightLoad ==
    \A c \in Callers :
        (IsLoaderCall(c) /\ InFlight(loads, callers'[c].path) # {}) =>
            /\ callers'[c].load \in InFlight(loads, callers'[c].path)
            /\ loads' = loads
            /\ runs' = runs

\* C1: if loadModule or loadAndExecuteHook is called for a key while an earlier
\* load of that key is still in flight, every caller receives the same pending
\* result, and exactly one fetch, one transpile and one execute happen for the
\* key, under every interleaving of the callers with the suspension points.
C1_InFlightLoadShared ==
    /\ []OneCyclePerInFlightKey
    /\ [][JoinsInFlightLoad]_vars

C1_Witness ==
    /\ callers["c1"].pc = "waiting"
    /\ callers["c2"].pc = "waiting"
    /\ callers["c1"].kind = "hook"
    /\ callers["c2"].kind = "module"
    /\ callers["c1"].path = callers["c2"].path
    /\ callers["c1"].load = callers["c2"].load
    /\ loads[callers["c1"].load].stage = "execute"
    /\ runs[callers["c1"].load] = [fetch |-> 1, transpile |-> 1, execute |-> 1]
    /\ Cardinality(Started) = 1

\* the latest load started for a key, 0 for none
LatestLoad(key) ==
    LET ids == { id \in LoadIds : loads[id].key = key }
    IN  IF ids = {} THEN 0 ELSE CHOOSE id \in ids : \A other \in ids : other <= id

FailedLoadsNotCached ==
    \A id \in LoadIds : loads[id].stage = "failed" => cache[loads[id].key] # id

RetryAfterFailureAndHitAfterSuccess ==
    \A c \in Callers :
        IsLoaderCall(c) =>
            LET key == callers'[c].path
                latest == LatestLoad(key)
            IN  /\ (latest # 0 /\ loads[latest].stage = "failed") =>
                       /\ callers'[c].load \notin Started
                       /\ loads'[callers'[c].load].key = key
                       /\ loads'[callers'[c].load].stage = "fetch"
                       /\ loads'[callers'[c].load].phase = "none"
                       /\ loads'[callers'[c].load].err = NoError
                       /\ runs'[callers'[c].load] = [fetch |-> 1, transpile |-> 0, execute |-> 0]
                /\ (latest # 0 /\ loads[latest].stage = "ready") =>
                       /\ callers'[c].load = latest
                       /\ loads' = loads
                       /\ runs' = runs

ReadyLoadStaysCached ==
    \A k \in ModuleKeys :
        (cache[k] # 0 /\ loads[cache[k]].stage = "ready") =>
            /\ cache'[k] = cache[k]
            /\ loads'[cache[k]] = loads[cache[k]]
            /\ runs'[cache[k]] = runs[cache[k]]

\* C2: a load that fails at any stage leaves no cache entry for its key, so
\* the next request for the key starts a new fetch/transpile/execute cycle; a
\* load that succeeds stays cached, so every later request for the key on the
\* same loader returns the cached result without a new fetch, transpile or
\* execution.
C2_FailedEvictedReadyCached ==
    /\ []FailedLoadsNotCached
    /\ [][RetryAfterFailureAndHitAfterSuccess]_vars
    /\ [][ReadyLoadStaysCached]_vars

C2_Witness ==
    /\ loads[1].stage = "failed"
    /\ loads[1].phase = "transpile"
    /\ loads[2].key = loads[1].key
    /\ loads[2].stage = "ready"
    /\ cache[loads[2].key] = 2
    /\ callers["c1"].load = 2
    /\ callers["c1"].outcome = "exports"
    /\ callers["c2"].load = 2
    /\ callers["c2"].pc = "waiting"
    /\ Cardinality(Started) = 2

----------------------------------------------------------------------------
(* Path resolution *)

\* the `..` segments of a path and its other segments, `.` left out
IsUp(seg) == seg = ".."

IsName(seg) == seg \notin {".", "..", ""}

Ups(path) == Len(SelectSeq(path, IsUp))

Names(path) == SelectSeq(path, IsName)

\* the key of a relative path whose `..` segments precede its names: the
\* directory without as many trailing segments as the path has `..`, then the names
KeyUnder(dir, path) == SubSeq(dir, 1, Len(dir) - Ups(path)) \o Names(path)

\* the path climbs above the peer root from the directory
Escapes(dir, path) == ~IsAbsolute(path) /\ Ups(path) > Len(dir) - 1

\* the caller's path was resolved: the caller was given the promise of a load
Resolved(c) == callers[c].kind = "module" /\ callers[c].load # 0

\* C18: a module path that starts with `/` resolves to itself whatever
\* fromPath is; any other path resolves to the path-join of the directory of
\* the fromPath argument and the path, so `./sibling.jsx` asked from
\* /hooks/client/get-client.jsx is the key /hooks/client/sibling.jsx.
C18_ResolvesAgainstFromPath ==
    \A c \in Callers :
        Resolved(c) =>
            /\ loads[callers[c].load].key = callers[c].path
            /\ IsAbsolute(callers[c].asked) => callers[c].path = callers[c].asked
            /\ (~IsAbsolute(callers[c].asked) /\ callers[c].fromArg # <<>>) =>
                   callers[c].path = KeyUnder(Dirname(callers[c].fromArg), callers[c].asked)
            /\ (callers[c].asked = <<".", "sibling.jsx">> /\ callers[c].fromArg = GetClient) =>
                   callers[c].path = <<"", "hooks", "client", "sibling.jsx">>

C18_Witness ==
    /\ callers["c1"].pc = "waiting"
    /\ callers["c1"].asked = <<".", "sibling.jsx">>
    /\ callers["c1"].fromArg = GetClient
    /\ callers["c1"].path = <<"", "hooks", "client", "sibling.jsx">>
    /\ loads[callers["c1"].load].stage = "fetch"
    /\ loads[1].key = <<"", "x.jsx">>

\* the caller asked a ready loader for a path that climbs above the peer root
AskedEscaping(c) ==
    /\ callers[c].kind = "module"
    /\ callers[c].asked \notin BuiltinModules
    /\ callers[c].phase # "loader not ready"
    /\ Escapes(Dirname(callers[c].from), callers[c].asked)

ResolutionError(c) ==
    /\ callers[c].pc = "done"
    /\ callers[c].outcome = "error"
    /\ callers[c].phase = "resolve"
    /\ callers[c].load = 0

\* the call that ends in a ResolutionError starts no load and no fetch
NoFetchOnResolutionError ==
    \A c \in Callers :
        (callers'[c] # callers[c] /\ callers'[c].phase = "resolve") =>
            /\ loads' = loads
            /\ runs' = runs
            /\ cache' = cache

\* C19: a relative path whose `..` segments climb above the peer root is
\* never given a module key: the load fails with a ResolutionError and no
\* fetch is issued.
C19_EscapingPathFailsToResolve ==
    /\ [](\A c \in Callers : AskedEscaping(c) => ResolutionError(c))
    /\ [][NoFetchOnResolutionError]_vars

C19_Witness ==
    /\ loaderReady
    /\ ResolutionError("c1")
    /\ callers["c1"].asked = <<"..", "..", "..", "x.jsx">>
    /\ callers["c1"].from = GetClient
    /\ Cardinality(Started) = 1
    /\ runs[1].fetch = 1

----------------------------------------------------------------------------
(* Re-entrant helpers.loadModule *)

Pending(id) == loads[id].stage \in RunningStages

\* the pending loads the code of a load awaits
WaitsOn(id) == { j \in AwaitedBy(id) : Pending(j) }

\* the loads a load waits on, directly or through other loads
RECURSIVE ReachIn(_, _)
ReachIn(seen, n) ==
    IF n = 0 THEN seen
    ELSE ReachIn(seen \cup UNION { WaitsOn(j) : j \in seen }, n - 1)

Reach(id) == ReachIn(WaitsOn(id), MaxLoads)

\* the load waits, directly or through a cycle of loads, on its own promise
OnCycle(id) == id \in Reach(id)

\* the load waits on a load that waits on its own promise
Stuck(id) == OnCycle(id) \/ \E j \in Reach(id) : OnCycle(j)

AwaitedByNext(id) == { callers'[c].load : c \in { d \in Callers :
                          callers'[d].pc = "waiting" /\ callers'[d].inside = id } }

WaitsOnNext(id) == { j \in AwaitedByNext(id) : loads'[j].stage \in RunningStages }

RECURSIVE ReachInNext(_, _)
ReachInNext(seen, n) ==
    IF n = 0 THEN seen
    ELSE ReachInNext(seen \cup UNION { WaitsOnNext(j) : j \in seen }, n - 1)

OnCycleNext(id) == id \in ReachInNext(WaitsOnNext(id), MaxLoads)

\* a step that closes a cycle is a call from the code of a load for a key
\* whose load is in flight and is the calling load or waits on it; the call
\* is given the promise of that load and starts nothing
CycleOnlyByAwaitingOwnLoad ==
    (\E id \in LoadIds : OnCycleNext(id) /\ ~OnCycle(id)) =>
        \E c \in Callers :
            /\ callers'[c] # callers[c]
            /\ callers'[c].pc = "waiting"
            /\ callers'[c].inside # 0
            /\ Pending(callers'[c].load)
            /\ \/ callers'[c].load = callers'[c].inside
               \/ callers'[c].inside \in Reach(callers'[c].load)
            /\ loads' = loads
            /\ runs' = runs

\* a call from the code of a load for a key that is not in flight starts a
\* load of its own, and a load on no cycle before is on none after
CallForOtherKeyStartsLoad ==
    \A c \in Callers :
        (/\ callers'[c] # callers[c]
         /\ callers'[c].pc = "waiting"
         /\ callers'[c].inside # 0
         /\ InFlight(loads, callers'[c].path) = {}
         /\ CachedLoad(cache, loads, callers'[c].path) = 0) =>
            /\ loads[callers'[c].load].stage = "unused"
            /\ loads'[callers'[c].load].stage = "fetch"
            /\ \A id \in LoadIds : OnCycleNext(id) => OnCycle(id)

\* the loads of a cycle stay as they are
CycleStays ==
    \A id \in LoadIds :
        OnCycle(id) => (OnCycleNext(id) /\ loads'[id] = loads[id])

\* every started load settles or waits on a load that awaits its own promise
SettlesUnlessStuck ==
    \A id \in LoadIds : Pending(id) ~> (~Pending(id) \/ Stuck(id))

----------------------------------------------------------------------------
(* Pipeline stages and failure attribution *)

Stages == <<"fetch", "transpile", "execute">>

StageIndex(stage) == CHOOSE i \in 1..3 : Stages[i] = stage

\* how often the i-th stage of a load was invoked
Invoked(id, i) == runs[id][Stages[i]]

InvokedNext(id, i) == runs'[id][Stages[i]]

\* no stage is invoked twice, and a stage is invoked only after the stage before it
StagesInOrder ==
    \A id \in LoadIds :
        /\ \A i \in 1..3 : Invoked(id, i) <= 1
        /\ \A i \in 2..3 : Invoked(id, i) <= Invoked(id, i - 1)
        /\ loads[id].stage \in RunningStages =>
              \A i \in 1..3 : Invoked(id, i) = IF i <= StageIndex(loads[id].stage) THEN 1 ELSE 0
        /\ loads[id].stage = "ready" => \A i \in 1..3 : Invoked(id, i) = 1

\* a failed load has the phase of the last stage invoked, and its callers get that phase
FailureHasPhaseOfStage ==
    /\ \A id \in LoadIds :
          loads[id].stage = "failed" =>
              /\ loads[id].phase \in RunningStages
              /\ \A i \in 1..3 :
                    Invoked(id, i) = IF i <= StageIndex(loads[id].phase) THEN 1 ELSE 0
    /\ \A c \in Callers :
          (callers[c].pc = "done" /\ callers[c].load # 0
              /\ loads[callers[c].load].stage = "failed") =>
                 /\ callers[c].outcome = "error"
                 /\ callers[c].phase = loads[callers[c].load].phase

\* a stage is invoked when the stage before it completed, and no stage of a
\* failed load is invoked again
StageInvokedOnceAfterPrevious ==
    \A id \in LoadIds :
        /\ \A i \in 2..3 :
              InvokedNext(id, i) > Invoked(id, i) =>
                  /\ loads[id].stage = Stages[i - 1]
                  /\ loads'[id].stage = Stages[i]
        /\ loads[id].stage = "failed" =>
              /\ loads'[id] = loads[id]
              /\ runs'[id] = runs[id]

\* C21: a load runs its stages in the order fetch, transpile, execute; when a
\* stage fails the error of the load carries the phase of that stage, no later
\* stage runs, and the loader does not invoke the failed stage again.
C21_StagesInOrderNoRetry ==
    /\ []StagesInOrder
    /\ []FailureHasPhaseOfStage
    /\ [][StageInvokedOnceAfterPrevious]_vars

C21_Witness ==
    /\ loads[1].stage = "failed"
    /\ loads[1].phase = "execute"
    /\ loads[2].stage = "failed"
    /\ loads[2].phase = "fetch"
    /\ runs[2] = [fetch |-> 1, transpile |-> 0, execute |-> 0]
    /\ callers["c1"].load = 1
    /\ callers["c1"].outcome = "error"
    /\ callers["c1"].phase = "execute"

----------------------------------------------------------------------------
(* The renderer of a hook *)

\* the step ends a run of tryRender whose loadAndExecuteHook failed, or which
\* found no loader
EndsFailedRun(c) ==
    /\ callers'[c] # callers[c]
    /\ callers'[c].kind = "hook"
    /\ callers'[c].pc = "done"
    /\ callers'[c].outcome = "error"

ErrorShown == error' # Null /\ error'.t = "string" /\ error'.s # <<>>

\* C22: whenever loadAndExecuteHook fails inside HookRenderer.tryRender, also
\* when the loader is not initialised, the run ends with error set to a
\* non-empty message, element null and loading false.
C22_FailedRunShowsError ==
    [][\A c \in Callers :
          EndsFailedRun(c) => (ErrorShown /\ element' = Null /\ loading' = FALSE)]_vars

----------------------------------------------------------------------------
(* The wrapped element creator *)

\* the call reported to the registry before it delegated to the real creator
ReportsBeforeDelegating(call) ==
    \E i, j \in DOMAIN call.trace :
        /\ i < j
        /\ call.trace[i] = "registerUsage"
        /\ call.trace[j] = "baseCreate"

\* C23 as stated: every element-creation call made through the wrapped
\* creator reports to the Usage Registry before the real creator is invoked.
C23_Original == hookCall.made => ReportsBeforeDelegating(hookCall)

\* the real creator is invoked once, as the last call
DelegatesLast(call) ==
    /\ call.trace # <<>>
    /\ \A i \in DOMAIN call.trace : (call.trace[i] = "baseCreate") = (i = Len(call.trace))

StringTypeReportsFirst ==
    hookCall.made =>
        /\ DelegatesLast(hookCall)
        /\ hookCall.type.t = "string" => ReportsBeforeDelegating(hookCall)
        /\ hookCall.type.t # "string" => hookCall.trace = <<"baseCreate">>

\* the registry is given the tag and the props (undefined for null props) of
\* a call with a string type, and nothing of a call with a component type
RegistryGetsTagAndProps ==
    hookCall' # hookCall =>
        /\ (hookCall'.type.t = "string" /\ hookCall'.fault # "registerUsage") =>
              /\ last'.op = "registerUsage"
              /\ last'.tag = hookCall'.type.s
              /\ last'.props = IF hookCall'.props.present THEN hookCall'.props ELSE NoProps
              /\ hookCall'.type.s \in usage'.tags
              /\ usage.tags \subseteq usage'.tags
        /\ hookCall'.type.t # "string" => (usage' = usage /\ last' = last)

\* C23: every element-creation call made through the wrapped creator whose
\* type is a string reports its tag and props to the Usage Registry before
\* the real creator is invoked; a call whose type is a component reports
\* nothing and is delegated to the real creator.
C23_StringTypesReportBeforeDelegating ==
    /\ []StringTypeReportsFirst
    /\ [][RegistryGetsTagAndProps]_vars

C23_Witness ==
    /\ hookCall.made
    /\ hookCall.type = Str(<<"p">>)
    /\ hookCall.props = Props(Str(<<"a">>), Undef)
    /\ hookCall.fault = "none"
    /\ hookCall.trace = <<"registerUsage", "requestRender", "baseCreate">>
    /\ last = Call("registerUsage", <<"p">>, Props(Str(<<"a">>), Undef), <<>>, Undef)
    /\ <<"p">> \in usage.tags
    /\ renderRequested

\* the step ends a run of tryRender whose load succeeded
EndsSuccessfulRun(c) ==
    /\ callers'[c] # callers[c]
    /\ callers'[c].kind = "hook"
    /\ callers'[c].pc = "done"
    /\ callers'[c].outcome = "element"

\* C24: a failure in the style pipeline (usage registration, requestRender or
\* renderCssIntoDom throwing) never aborts hook rendering: the wrapped creator
\* still returns the element of the real creator, and a tryRender whose load
\* succeeded still ends with element set and error null.
C24_StyleFailureKeepsRendering ==
    /\ [](hookCall.made =>
            hookCall.element = BaseCreate(hookCall.type, hookCall.props, hookCall.children))
    /\ [][\A c \in Callers :
            EndsSuccessfulRun(c) => (element' # Null /\ error' = Null)]_vars

----------------------------------------------------------------------------
(* FileRendererAdapter properties *)

\* the fetch was started by an effect that is no longer in place: the
\* adapter is unmounted, or its path has changed since
Superseded(id) ==
    /\ fetches[id].stage \notin {"unused", "done"}
    /\ (~adapter.mounted \/ adapter.effect # id)

\* the step is a step of the async function of the fetch
StepOfFetch(id) == fetches'[id].stage # fetches[id].stage

\* C25: once the FileRenderer adapter is unmounted or its path has changed,
\* the fetch it started earlier never updates content, contentType or the
\* loading flag, whatever the order in which the old and new fetches complete.
C25_LateFetchDiscarded ==
    [][\A id \in FetchIds :
          (Superseded(id) /\ StepOfFetch(id)) =>
              /\ adapter'.content = adapter.content
              /\ adapter'.contentType = adapter.contentType
              /\ adapter'.loading = adapter.loading]_vars

C25_Witness ==
    /\ adapter.mounted
    /\ adapter.path = "b.txt"
    /\ adapter.effect = 2
    /\ adapter.content = TextOf("b.txt")
    /\ fetches[1].path = "a.md"
    /\ fetches[1].cancelled
    /\ fetches[1].stage = "done"
    /\ fetches[2].stage = "done"
    /\ fetches[2].doneAt = 1
    /\ fetches[1].doneAt = 2

\* the step is a call of helpers.loadModule without a fromPath by the code of a
\* module
CallsWithoutFromPath(c) ==
    /\ callers[c].pc \in {"idle", "done"}
    /\ callers'[c].pc # callers[c].pc \/ callers'[c] # callers[c]
    /\ callers'[c].kind = "module"
    /\ callers'[c].inside # 0
    /\ callers'[c].fromArg = <<>>

\* the module whose code makes the call of a caller
ExecutingModule(c) == loads[callers'[c].inside].key

\* C26: when helpers.loadModule is called without fromPath, the path is
\* resolved relative to the module that is executing the call, also when
\* several module loads are in flight and interleave at their suspension points.
C26_DefaultAnchorIsExecutingModule ==
    [][\A c \in Callers :
          CallsWithoutFromPath(c) =>
              /\ ResolvePath(callers'[c].asked, callers'[c].from) =
                     ResolvePath(callers'[c].asked, ExecutingModule(c))
              /\ callers'[c].pc = "waiting" =>
                     callers'[c].path =
                         ResolvePath(callers'[c].asked, ExecutingModule(c)).key]_vars

----------------------------------------------------------------------------
(* The lifecycle of the usage snapshot *)

\* no entry of the three usage sets is removed by the step
UsageGrows ==
    /\ usage.tags \subseteq usage'.tags
    /\ usage.classes \subseteq usage'.classes
    /\ usage.tagClasses \subseteq usage'.tagClasses

\* C27: the usage snapshot grows monotonically: no registry or theme operation
\* other than clearUsage removes an entry of the three usage sets, so each set
\* in a later state contains the same set of an earlier state unless a
\* clearUsage call lies between them.
C27_UsageGrowsUntilCleared == [][ClearUsage \/ UsageGrows]_vars

C27_Witness ==
    /\ usage.tags = {<<"p">>, <<"q">>}
    /\ usage.classes = {<<"a">>, <<"b">>, <<"c">>}
    /\ Cardinality(usage.tagClasses) = 6
    /\ themeOrder # <<>>
    /\ currentTheme # Null
    /\ prevOp = "registerTheme"
    /\ last.op = "setCurrentTheme"

----------------------------------------------------------------------------
(* Keys of the JSX factory *)

\* the key an element of mockReact.createElement shows for a key string
ShownKey(str) == IF str = <<>> THEN Null ELSE Str(str)

KeyOfItem(i) == jsxMapped.elements[i].key

Positions == DOMAIN jsxMapped.items

OneElementPerItem == Len(jsxMapped.elements) = Len(jsxMapped.items)

\* C28 as stated: factory('div', {children:'hello'}, 123) has key '123', and
\* a list mapped with each item as the key yields one element per item whose
\* key equals String(item), distinct items having distinct keys.
C28_Original ==
    /\ (jsxCall.made /\ jsxCall.maybeKey = Num(123)) =>
           jsxElement.key = Str(<<"1", "2", "3">>)
    /\ jsxMapped.made =>
           /\ OneElementPerItem
           /\ \A i \in Positions : KeyOfItem(i) = Str(JsString(jsxMapped.items[i]))
           /\ \A i, j \in Positions :
                  jsxMapped.items[i] # jsxMapped.items[j] => KeyOfItem(i) # KeyOfItem(j)

\* C28: keys given as the third argument are stringified: for props without a
\* key field, factory('div', {children:'hello'}, 123) has key '123'; a list
\* mapped with each item as the key yields one element per item, whose key is
\* String(item) for every item other than undefined and the empty string
\* (these give key null); distinct numbers give distinct keys, and two items
\* share a key exactly when their String forms are equal, as 1 and '1' do.
C28_ThirdArgumentKeysStringified ==
    /\ (jsxCall.made /\ jsxCall.maybeKey = Num(123)) =>
           jsxElement.key = Str(<<"1", "2", "3">>)
    /\ (jsxCall.made /\ jsxCall.maybeKey # Undef) =>
           jsxElement.key = ShownKey(JsString(jsxCall.maybeKey))
    /\ jsxMapped.made =>
           /\ OneElementPerItem
           /\ \A i \in Positions :
                  /\ jsxMapped.items[i] = Num(2) => KeyOfItem(i) = Str(<<"2">>)
                  /\ jsxMapped.items[i] = Undef => KeyOfItem(i) = Null
                  /\ jsxMapped.items[i] # Undef =>
                         KeyOfItem(i) = ShownKey(JsString(jsxMapped.items[i]))
           /\ \A i, j \in Positions :
                  /\ (/\ jsxMapped.items[i].t = "number"
                      /\ jsxMapped.items[j].t = "number"
                      /\ jsxMapped.items[i] # jsxMapped.items[j]) =>
                         KeyOfItem(i) # KeyOfItem(j)
                  /\ (jsxMapped.items[i] # Undef /\ jsxMapped.items[j] # Undef) =>
                         (KeyOfItem(i) = KeyOfItem(j)) =
                             (JsString(jsxMapped.items[i]) = JsString(jsxMapped.items[j]))

C28_Witness ==
    /\ jsxCall.maybeKey = Num(123)
    /\ jsxElement.key = Str(<<"1", "2", "3">>)
    /\ jsxMapped.items = <<Num(2), Num(3)>>
    /\ KeyOfItem(1) = Str(<<"2">>)
    /\ KeyOfItem(2) = Str(<<"3">>)

\* the latest call gave no key: maybeKey is undefined and props has no key field
NoKeyGiven ==
    /\ jsxCall.made
    /\ jsxCall.maybeKey = Undef
    /\ (jsxCall.config.isNull \/ "key" \notin DOMAIN jsxCall.config.fields)

\* C29: when maybeKey is undefined and props has no key field, the element
\* produced by the JSX factory has key null.
C29_NoKeyGivesNull == NoKeyGiven => jsxElement.key = Null

C29_Witness ==
    /\ jsxCall.made
    /\ jsxCall.maybeKey = Undef
    /\ jsxCall.config = Config([children |-> Hello, className |-> Str(<<"t", "e", "s", "t">>)])
    /\ jsxElement.key = Null

\* the UI library is missing, or it has no createElement
Unavailable(React) ==
    IF React.t \in {"undefined", "null"} THEN TRUE
    ELSE IF "createElement" \notin DOMAIN React.fields THEN TRUE
    ELSE React.fields["createElement"] \in {Undef, Null}

\* C30: factory construction yields "unavailable" (undefined) exactly when
\* the UI library is missing or has no createElement; in every other case it
\* yields a function.
C30_UnavailableExactlyWithoutCreator ==
    jsxFactory.made =>
        /\ (jsxFactory.factory = Undef) = Unavailable(jsxFactory.React)
        /\ ~Unavailable(jsxFactory.React) => jsxFactory.factory.t = "function"

C30_Witness ==
    /\ jsxFactory.made
    /\ jsxFactory.React = ReactObject([Fragment |-> Obj(9)])
    /\ jsxFactory.factory = Undef

----------------------------------------------------------------------------
(* Peer URLs *)

\* the separator the claim puts between the base and the path
SlashIfMissing(path) == IF path # <<>> /\ path[1] = "/" THEN <<>> ELSE <<"/">>

HasExplicitScheme(host) == StartsWith(host, Http) \/ StartsWith(host, Https)

\* the base of the claim: an explicit scheme is kept, a host with a colon
\* gets http://, any other host https://
ClaimedBase(host) ==
    IF HasExplicitScheme(host) THEN host
    ELSE IF ":" \in { host[i] : i \in DOMAIN host } THEN Http \o host
    ELSE Https \o host

UrlIsBaseThenPath ==
    peerCall.made => peerCall.url = peerCall.base \o SlashIfMissing(peerCall.path) \o peerCall.path

\* C31 as stated: the URL is the normalized base followed by the path with
\* one slash inserted when the path has none, and the base has a scheme for
\* every host.
C31_Original ==
    /\ UrlIsBaseThenPath
    /\ peerCall.made => peerCall.base = ClaimedBase(peerCall.host)

\* C31: helpers.buildPeerUrl(path) returns the normalized base followed by
\* path, with exactly one `/` inserted between them when path does not start
\* with `/`; for a non-empty host the base keeps an explicit http:// or
\* https:// prefix, gets http:// when the host contains a colon and https://
\* otherwise; for an empty host the base is the empty string.
C31_PeerUrlIsBaseThenPath ==
    /\ UrlIsBaseThenPath
    /\ (peerCall.made /\ peerCall.host # <<>>) => peerCall.base = ClaimedBase(peerCall.host)
    /\ (peerCall.made /\ peerCall.host = <<>>) => peerCall.base = <<>>

C31_Witness ==
    /\ peerCall.made
    /\ peerCall.host = <<"h", ":", "8">>
    /\ peerCall.path = <<"a">>
    /\ peerCall.url = <<"h", "t", "t", "p", ":", "/", "/", "h", ":", "8", "/", "a">>

----------------------------------------------------------------------------
(* Overlapping runs of tryRender *)

\* the tryRender runs that have not reached their finally
RunsInFlight == { c \in Callers : callers[c].kind = "hook" /\ callers[c].pc = "waiting" }

\* the renderer shows what the run of caller c produced
ShowsResultOf(c) ==
    IF callers[c].outcome = "element"
    THEN element = ElementOf(callers[c].path) /\ error = Null
    ELSE error # Null /\ element = Null

\* C32: when tryRender is started again while an earlier run is in flight,
\* then once both have settled the displayed element and error are the ones
\* produced by the run started last: a late result or error of the earlier
\* run never replaces or hides the result of the later run.
C32_LatestRunIsDisplayed ==
    (latestRun # "none" /\ RunsInFlight = {}) => ShowsResultOf(latestRun)

\* C33: in HookRenderer the loading flag is true in every state in which some
\* tryRender run is still in flight, also when runs overlap; so it is false
\* only when no run is in flight.
C33_LoadingWhileInFlight == RunsInFlight # {} => loading

----------------------------------------------------------------------------
(* Auto-sync with several renderers *)

\* the mounted renderers that have a non-empty host
ActiveRenderers == { r \in RendererIds : renderers[r].mounted /\ renderers[r].host # <<>> }

----------------------------------------------------------------------------
(* The composite entries of the usage registry *)

\* the composite entries are pairs of a registered tag and a registered class
CompositesAreRegisteredPairs ==
    \A k \in usage.tagClasses :
        \E i \in 1..Len(k) :
            /\ k[i] = "|"
            /\ SubSeq(k, 1, i - 1) \in usage.tags
            /\ SubSeq(k, i + 1, Len(k)) \in usage.classes

\* the classes a registerUsage call found in its props
ClassesGiven(call) == { ClassList(call.props)[i] : i \in DOMAIN ClassList(call.props) }

\* a registerUsage call with an empty tag adds its classes and nothing else
EmptyTagAddsClassesOnly ==
    (last'.op = "registerUsage" /\ last'.tag = <<>>) =>
        /\ usage'.classes = usage.classes \cup ClassesGiven(last')
        /\ usage'.tags = usage.tags
        /\ usage'.tagClasses = usage.tagClasses

\* C35: in every reachable state of the usage registry each composite entry
\* `t|c` of the tag-class set has t in the tag set and c in the class set, and a
\* registerUsage call with an empty tag adds its classes to the class set but no
\* tag and no composite entry.
C35_CompositesWithinTagsAndClasses ==
    /\ []CompositesAreRegisteredPairs
    /\ [][EmptyTagAddsClassesOnly]_vars

C35_Witness ==
    /\ last.op = "registerUsage"
    /\ last.tag = <<>>
    /\ prevOp = "registerUsage"
    /\ usage.tags = {<<"p">>}
    /\ usage.classes = {<<"a">>, <<"b">>}
    /\ usage.tagClasses = {<<"p", "|", "a">>}

----------------------------------------------------------------------------
(* The default themes are loaded once *)

\* one fetch of theme.yaml and one registration of its themes at most
AtMostOneLoad ==
    /\ defaults.fetches <= 1
    /\ defaults.registered <= 1

\* a call made once the flag is set returns at once and changes nothing else
LaterCallReturnsAtOnce ==
    \A c \in DefaultCallers :
        (/\ defaults.loaded
         /\ defaults.callers[c].pc \in {"idle", "returned"}
         /\ defaults'.callers[c] # defaults.callers[c]) =>
            /\ defaults'.callers[c] = ReturnedWith("skipped")
            /\ defaults'.fetches = defaults.fetches
            /\ defaults'.registered = defaults.registered
            /\ UNCHANGED <<themes, themeOrder, currentTheme>>

\* the first call is the only one that goes on to fetch
OnlyFirstCallFetches ==
    \A c \in DefaultCallers :
        defaults'.callers[c].pc = "fetching" /\ defaults.callers[c].pc # "fetching" =>
            ~defaults.loaded /\ defaults.fetches = 0

\* C36: ensureDefaultsLoaded performs the theme load at most once per process:
\* every call after the first returns without fetching or registering anything,
\* also when the first call failed or is still in flight, so a failed load is
\* never retried and a later caller can return before the themes are registered.
C36_DefaultsLoadedAtMostOnce ==
    /\ []AtMostOneLoad
    /\ [][LaterCallReturnsAtOnce]_vars
    /\ [][OnlyFirstCallFetches]_vars

C36_Witness ==
    /\ defaults.callers["main"].pc = "fetching"
    /\ defaults.callers["late"] = ReturnedWith("skipped")
    /\ defaults.fetches = 1
    /\ defaults.registered = 0
    /\ DOMAIN themes = {}

----------------------------------------------------------------------------
(* The frame of setCurrentTheme *)

\* after a setCurrentTheme call the current theme is its name, and the step
\* changed neither the theme map nor the usage sets
SetCurrentThemeSetsOnlyCurrent ==
    last'.op = "setCurrentTheme" =>
        /\ currentTheme' = Str(last'.name)
        /\ themes' = themes
        /\ themeOrder' = themeOrder
        /\ usage' = usage

\* C37: setCurrentTheme(n) sets currentTheme to n for any name n, registered or
\* not, and leaves the theme map and the usage sets unchanged; in particular it
\* does not register n.
C37_SetCurrentThemeFrame == [][SetCurrentThemeSetsOnlyCurrent]_vars

C37_Witness ==
    /\ last.op = "setCurrentTheme"
    /\ last.name = <<"l", "i", "g", "h", "t">>
    /\ currentTheme = Str(<<"l", "i", "g", "h", "t">>)
    /\ DOMAIN themes = {<<"d", "a", "r", "k">>}
    /\ usage.tags = {<<"p">>}
    /\ usage.tagClasses # {}

----------------------------------------------------------------------------
(* The themes of the state serialized by the web render hook *)

\* the latest call was a CSS generation that went through the web render hook
SerializedByRenderHook == last.op = "getCssForWeb" /\ env.hook = "wasm"

NonEmptyString(v) == v.t = "string" /\ v.s # <<>>

\* the theme the render hook is to serialize for the registries as they are
ExpectedTheme ==
    IF NonEmptyString(currentTheme) THEN currentTheme
    ELSE IF themeOrder # <<>> THEN Str(themeOrder[1])
    ELSE Str(<<"d", "e", "f", "a", "u", "l", "t">>)

\* C38: the state serialized for the style engine by the web render hook always
\* has non-empty current_theme and default_theme: when a theme is active both
\* equal it; when none is active both equal the first registered theme name, or
\* 'default' when no theme is registered.
C38_SerializedThemesNonEmpty ==
    SerializedByRenderHook =>
        /\ NonEmptyString(engineState.current_theme)
        /\ NonEmptyString(engineState.default_theme)
        /\ engineState.current_theme = ExpectedTheme
        /\ engineState.default_theme = ExpectedTheme

C38_Witness ==
    /\ SerializedByRenderHook
    /\ currentTheme = Str(<<>>)
    /\ themeOrder = << <<"l", "i", "g", "h", "t">>, <<"d", "a", "r", "k">> >>
    /\ engineState.current_theme = Str(<<"l", "i", "g", "h", "t">>)
    /\ engineState.default_theme = Str(<<"l", "i", "g", "h", "t">>)

----------------------------------------------------------------------------
(* bootstrap mounts the App *)

\* C39: bootstrap always mounts the App exactly once, whatever the outcome of
\* WASM initialisation and default-theme loading: a failure of either is caught
\* inside bootstrap, initError stays undefined, and the ErrorBoundary is never
\* started in its error state.
C39_BootstrapMountsAppOnce ==
    /\ [](boot.roots <= 1)
    /\ [](~boot.initError)
    /\ [](~boot.hasError)
    /\ <>(boot.roots = 1)

C39_Witness ==
    /\ boot.pc = "done"
    /\ boot.failure = "initWasms"
    /\ boot.roots = 1
    /\ ~boot.initError
    /\ ~boot.hasError

====
